---- MODULE Spec2Model ----
(***************************************************************************)
(* Model of the root-cause analysis module of the city liability analytics *)
(* pipeline (src/python/src/text_analysis.py): the text normaliser         *)
(* clean_text, the keyword tagger, the per-tag financial roll-up and the   *)
(* geospatial ranking and marker rendering of perform_root_cause_analysis. *)
(*                                                                         *)
(* Conventions.  A Python str is a sequence of one-character strings.  A   *)
(* nullable value (SQL NULL / None / NaN) is None == <<>>, a present value *)
(* v is Some(v) == <<v>>.  Amounts are whole numbers; a quotient a / b is  *)
(* kept exact as the pair <<a, b>>.  A DataFrame is a sequence of records. *)
(***************************************************************************)
EXTENDS Integers, Sequences, FiniteSets, TLC

VARIABLES
  dbOpenable,        \* sqlite3.connect(db_path) can open the database file
  dbOK,              \* the claims table can be read (text_analysis.py:126)
  store,             \* rows of the claims table, in rowid order
  conn,              \* the sqlite3 connection of the run: "none", "open", "closed"
  pc,                \* position of perform_root_cause_analysis
  df,                \* the DataFrame read at line 126, with the columns added later
  oversight_loss,    \* oversight_loss_data / df_oversight_loss (lines 193-203)
  oversight_analysis,\* the merged per-tag report (lines 207-228)
  map_center,        \* lines 278-281
  high_loss_claims,  \* line 298
  visited,           \* rows of high_loss_claims the marker loop has been through
  markers,           \* markers added to the folium map so far (lines 413-419)
  exc,               \* the exception the run ended with, if any
  chartFile,         \* output/top_oversights_by_loss.html
  mapFile,           \* output/high_loss_claims_map.html
  summary,           \* figures printed by the analysis summary (lines 431-442)
  tpc,               \* position of the text functions' driver
  raw,               \* input of clean_text
  cleanedT,          \* clean_text(raw)
  tagsT,             \* tag list computed from cleanedT
  recleanedT,        \* clean_text applied to cleanedT
  csv,               \* the source CSV file of load_csv_to_db, if it can be read
  schemaOK,          \* sql/schema.sql can be read and executed
  writeOK,           \* df.to_sql succeeds (load_data_to_db.py:119)
  lpc,               \* position of load_csv_to_db
  lconn,             \* the sqlite3 connection of the loader
  loadReport,        \* figures printed by the loader (lines 71, 125, 131)
  run,               \* number of the current run of the analysis
  chartRun,          \* the run that last wrote chartFile, 0 if none
  mapRun,            \* the run that last wrote mapFile, 0 if none
  prev,              \* inputs, results and files of the run before, if any
  sortMemo,          \* sort_values calls made so far: <<input, outcome>>
  topMemo,           \* nlargest calls made so far: <<input, outcome>>
  kpc,               \* position of calculate_kpis
  kconn,             \* the sqlite3 connection of calculate_kpis
  kdf,               \* the DataFrame of calculate_kpis
  kpis,              \* df_kpis, the table calculate_kpis returns
  kpiFile,           \* data/processed/quarterly_kpis.csv
  kexc,              \* the exception calculate_kpis ended with, if any
  epc,               \* position of perform_analysis (analysis.py)
  econn,             \* the sqlite3 connection of perform_analysis
  edf,               \* the DataFrame of perform_analysis
  eexc,              \* the exception perform_analysis ended with, if any
  gpc,               \* position of generate_claims_data (data_simulation.py)
  settlement_amount, \* its local of that name, None before line 148
  legal_costs,       \* its local of that name, None before line 148
  claim_status,      \* its local of that name, None before line 161
  data               \* its list of the records generated so far

pipeVars == <<dbOpenable, dbOK, store, conn, pc, df, oversight_loss, oversight_analysis,
              map_center, high_loss_claims, visited, markers, exc, chartFile,
              mapFile, summary>>
textVars == <<tpc, raw, cleanedT, tagsT, recleanedT>>
loadVars == <<csv, schemaOK, writeOK, lpc, lconn, loadReport>>
runVars == <<run, chartRun, mapRun, prev, sortMemo, topMemo>>
readerVars == <<kpc, kconn, kdf, kpis, kpiFile, kexc, epc, econn, edf, eexc>>
genVars == <<gpc, settlement_amount, legal_costs, claim_status, data>>
vars == <<dbOpenable, dbOK, store, conn, pc, df, oversight_loss, oversight_analysis,
          map_center, high_loss_claims, visited, markers, exc, chartFile,
          mapFile, summary, tpc, raw, cleanedT, tagsT, recleanedT,
          csv, schemaOK, writeOK, lpc, lconn, loadReport, run, chartRun, mapRun,
          prev, sortMemo, topMemo,
          kpc, kconn, kdf, kpis, kpiFile, kexc, epc, econn, edf, eexc,
          gpc, settlement_amount, legal_costs, claim_status, data>>

----------------------------------------------------------------------------
(* Bounds of the model *)

\* longest raw text of the text specification, in fragments
MaxFrags == 4

\* most rows in the claims table
MaxClaims == 3

\* rows nlargest keeps (line 298).  The source keeps 200; the tables of the
\* model hold at most MaxClaims rows, so the cut-off is scaled down to make
\* both sides of it (fewer valid-geo rows than the cut-off, and more) happen.
TopN == 2

----------------------------------------------------------------------------
(* Generic helpers *)

None == <<>>

Some(v) == <<v>>

IsNone(o) == o = None

Get(o) == o[1]

Range(s) == {s[i] : i \in 1..Len(s)}

RECURSIVE SumSeq(_)
SumSeq(s) == IF s = <<>> THEN 0 ELSE Head(s) + SumSeq(Tail(s))

RECURSIVE MapIdx(_, _, _)
\* the sub-sequence of s at the (increasing) positions i with keep[i]
MapIdx(s, keep, i) ==
  IF i > Len(s) THEN <<>>
  ELSE (IF keep[i] THEN <<s[i]>> ELSE <<>>) \o MapIdx(s, keep, i + 1)

----------------------------------------------------------------------------
(* Characters and Python's str / re primitives used by clean_text *)

LowerLetters ==
  <<"a","b","c","d","e","f","g","h","i","j","k","l","m",
    "n","o","p","q","r","s","t","u","v","w","x","y","z">>

UpperLetters ==
  <<"A","B","C","D","E","F","G","H","I","J","K","L","M",
    "N","O","P","Q","R","S","T","U","V","W","X","Y","Z">>

\* the characters \s matches and str.split() splits on
Whitespace == {" ", "\t", "\n"}

AZ == Range(LowerLetters)

\* str.lower() on one character
lower_char(c) ==
  IF \E i \in 1..26 : UpperLetters[i] = c
  THEN LowerLetters[CHOOSE i \in 1..26 : UpperLetters[i] = c]
  ELSE c

\* str.lower()
str_lower(s) == [i \in 1..Len(s) |-> lower_char(s[i])]

\* re.sub(r'[^a-z\s]', '', s)
re_sub_non_alpha(s) == SelectSeq(s, LAMBDA c : c \in AZ \/ c \in Whitespace)

RECURSIVE str_split(_, _)
\* str.split(): the maximal runs of non-whitespace characters of s, in order;
\* cur is the run being read
str_split(s, cur) ==
  IF s = <<>> THEN (IF cur = <<>> THEN <<>> ELSE <<cur>>)
  ELSE IF Head(s) \in Whitespace
       THEN (IF cur = <<>> THEN <<>> ELSE <<cur>>) \o str_split(Tail(s), <<>>)
       ELSE str_split(Tail(s), Append(cur, Head(s)))

RECURSIVE str_join(_)
\* ' '.join(words)
str_join(words) ==
  IF words = <<>> THEN <<>>
  ELSE IF Len(words) = 1 THEN Head(words)
  ELSE Head(words) \o <<" ">> \o str_join(Tail(words))

\* stopwords.words('english') of the NLTK corpus
stop_words ==
  {<<"i">>,
   <<"m","e">>,
   <<"m","y">>,
   <<"m","y","s","e","l","f">>,
   <<"w","e">>,
   <<"o","u","r">>,
   <<"o","u","r","s">>,
   <<"o","u","r","s","e","l","v","e","s">>,
   <<"y","o","u">>,
   <<"y","o","u","'","r","e">>,
   <<"y","o","u","'","v","e">>,
   <<"y","o","u","'","l","l">>,
   <<"y","o","u","'","d">>,
   <<"y","o","u","r">>,
   <<"y","o","u","r","s">>,
   <<"y","o","u","r","s","e","l","f">>,
   <<"y","o","u","r","s","e","l","v","e","s">>,
   <<"h","e">>,
   <<"h","i","m">>,
   <<"h","i","s">>,
   <<"h","i","m","s","e","l","f">>,
   <<"s","h","e">>,
   <<"s","h","e","'","s">>,
   <<"h","e","r">>,
   <<"h","e","r","s">>,
   <<"h","e","r","s","e","l","f">>,
   <<"i","t">>,
   <<"i","t","'","s">>,
   <<"i","t","s">>,
   <<"i","t","s","e","l","f">>,
   <<"t","h","e","y">>,
   <<"t","h","e","m">>,
   <<"t","h","e","i","r">>,
   <<"t","h","e","i","r","s">>,
   <<"t","h","e","m","s","e","l","v","e","s">>,
   <<"w","h","a","t">>,
   <<"w","h","i","c","h">>,
   <<"w","h","o">>,
   <<"w","h","o","m">>,
   <<"t","h","i","s">>,
   <<"t","h","a","t">>,
   <<"t","h","a","t","'","l","l">>,
   <<"t","h","e","s","e">>,
   <<"t","h","o","s","e">>,
   <<"a","m">>,
   <<"i","s">>,
   <<"a","r","e">>,
   <<"w","a","s">>,
   <<"w","e","r","e">>,
   <<"b","e">>,
   <<"b","e","e","n">>,
   <<"b","e","i","n","g">>,
   <<"h","a","v","e">>,
   <<"h","a","s">>,
   <<"h","a","d">>,
   <<"h","a","v","i","n","g">>,
   <<"d","o">>,
   <<"d","o","e","s">>,
   <<"d","i","d">>,
   <<"d","o","i","n","g">>,
   <<"a">>,
   <<"a","n">>,
   <<"t","h","e">>,
   <<"a","n","d">>,
   <<"b","u","t">>,
   <<"i","f">>,
   <<"o","r">>,
   <<"b","e","c","a","u","s","e">>,
   <<"a","s">>,
   <<"u","n","t","i","l">>,
   <<"w","h","i","l","e">>,
   <<"o","f">>,
   <<"a","t">>,
   <<"b","y">>,
   <<"f","o","r">>,
   <<"w","i","t","h">>,
   <<"a","b","o","u","t">>,
   <<"a","g","a","i","n","s","t">>,
   <<"b","e","t","w","e","e","n">>,
   <<"i","n","t","o">>,
   <<"t","h","r","o","u","g","h">>,
   <<"d","u","r","i","n","g">>,
   <<"b","e","f","o","r","e">>,
   <<"a","f","t","e","r">>,
   <<"a","b","o","v","e">>,
   <<"b","e","l","o","w">>,
   <<"t","o">>,
   <<"f","r","o","m">>,
   <<"u","p">>,
   <<"d","o","w","n">>,
   <<"i","n">>,
   <<"o","u","t">>,
   <<"o","n">>,
   <<"o","f","f">>,
   <<"o","v","e","r">>,
   <<"u","n","d","e","r">>,
   <<"a","g","a","i","n">>,
   <<"f","u","r","t","h","e","r">>,
   <<"t","h","e","n">>,
   <<"o","n","c","e">>,
   <<"h","e","r","e">>,
   <<"t","h","e","r","e">>,
   <<"w","h","e","n">>,
   <<"w","h","e","r","e">>,
   <<"w","h","y">>,
   <<"h","o","w">>,
   <<"a","l","l">>,
   <<"a","n","y">>,
   <<"b","o","t","h">>,
   <<"e","a","c","h">>,
   <<"f","e","w">>,
   <<"m","o","r","e">>,
   <<"m","o","s","t">>,
   <<"o","t","h","e","r">>,
   <<"s","o","m","e">>,
   <<"s","u","c","h">>,
   <<"n","o">>,
   <<"n","o","r">>,
   <<"n","o","t">>,
   <<"o","n","l","y">>,
   <<"o","w","n">>,
   <<"s","a","m","e">>,
   <<"s","o">>,
   <<"t","h","a","n">>,
   <<"t","o","o">>,
   <<"v","e","r","y">>,
   <<"s">>,
   <<"t">>,
   <<"c","a","n">>,
   <<"w","i","l","l">>,
   <<"j","u","s","t">>,
   <<"d","o","n">>,
   <<"d","o","n","'","t">>,
   <<"s","h","o","u","l","d">>,
   <<"s","h","o","u","l","d","'","v","e">>,
   <<"n","o","w">>,
   <<"d">>,
   <<"l","l">>,
   <<"m">>,
   <<"o">>,
   <<"r","e">>,
   <<"v","e">>,
   <<"y">>,
   <<"a","i","n">>,
   <<"a","r","e","n">>,
   <<"a","r","e","n","'","t">>,
   <<"c","o","u","l","d","n">>,
   <<"c","o","u","l","d","n","'","t">>,
   <<"d","i","d","n">>,
   <<"d","i","d","n","'","t">>,
   <<"d","o","e","s","n">>,
   <<"d","o","e","s","n","'","t">>,
   <<"h","a","d","n">>,
   <<"h","a","d","n","'","t">>,
   <<"h","a","s","n">>,
   <<"h","a","s","n","'","t">>,
   <<"h","a","v","e","n">>,
   <<"h","a","v","e","n","'","t">>,
   <<"i","s","n">>,
   <<"i","s","n","'","t">>,
   <<"m","a">>,
   <<"m","i","g","h","t","n">>,
   <<"m","i","g","h","t","n","'","t">>,
   <<"m","u","s","t","n">>,
   <<"m","u","s","t","n","'","t">>,
   <<"n","e","e","d","n">>,
   <<"n","e","e","d","n","'","t">>,
   <<"s","h","a","n">>,
   <<"s","h","a","n","'","t">>,
   <<"s","h","o","u","l","d","n">>,
   <<"s","h","o","u","l","d","n","'","t">>,
   <<"w","a","s","n">>,
   <<"w","a","s","n","'","t">>,
   <<"w","e","r","e","n">>,
   <<"w","e","r","e","n","'","t">>,
   <<"w","o","n">>,
   <<"w","o","n","'","t">>,
   <<"w","o","u","l","d","n">>,
   <<"w","o","u","l","d","n","'","t">>}

\* pd.isna(text)
isna(x) == IsNone(x)

\* the mutant of clean_text that filters the words before deleting the
\* characters outside a-z
clean_text_filter_first(text) ==
  IF isna(text) THEN <<>>
  ELSE LET words == str_split(str_lower(Get(text)), <<>>)
           kept  == SelectSeq(words,
                              LAMBDA word : word \notin stop_words /\ Len(word) > 1)
       IN  str_join(SelectSeq([i \in 1..Len(kept) |-> re_sub_non_alpha(kept[i])],
                              LAMBDA word : word # <<>>))

RECURSIVE drop_duplicates(_, _)
\* the words of a list that were not seen earlier in it
drop_duplicates(words, seen) ==
  IF words = <<>> THEN <<>>
  ELSE IF Head(words) \in seen THEN drop_duplicates(Tail(words), seen)
  ELSE <<Head(words)>> \o drop_duplicates(Tail(words), seen \cup {Head(words)})

\* the mutant of clean_text that keeps only the first occurrence of a word
clean_text_unique_words(text) ==
  IF isna(text) THEN <<>>
  ELSE LET words == str_split(re_sub_non_alpha(str_lower(Get(text))), <<>>)
           kept  == SelectSeq(words,
                              LAMBDA word : word \notin stop_words /\ Len(word) > 1)
       IN  str_join(drop_duplicates(kept, {}))

\* the mutant of clean_text without the null check of lines 66-67: a null
\* goes through str(), which spells it "None"
clean_text_no_null_check(text) ==
  LET s       == IF isna(text) THEN <<"N","o","n","e">> ELSE Get(text)
      words   == str_split(re_sub_non_alpha(str_lower(s)), <<>>)
  IN  str_join(SelectSeq(words,
                         LAMBDA word : word \notin stop_words /\ Len(word) > 1))

\* the mutant of clean_text that keeps one-letter words
clean_text_keep_short(text) ==
  IF isna(text) THEN <<>>
  ELSE str_join(SelectSeq(str_split(re_sub_non_alpha(str_lower(Get(text))), <<>>),
                          LAMBDA word : word \notin stop_words))

clean_text(text) ==
  IF isna(text) THEN <<>>
  ELSE LET lowered == str_lower(Get(text))
           letters == re_sub_non_alpha(lowered)
           words   == str_split(letters, <<>>)
       IN  str_join(SelectSeq(words,
                              LAMBDA word : word \notin stop_words /\ Len(word) > 1))

\* the oversight keyword taxonomy, in declaration order
oversight_keywords ==
  <<<<"i","n","s","p","e","c","t","i","o","n">>,
    <<"r","e","p","a","i","r">>,
    <<"m","a","i","n","t","e","n","a","n","c","e">>,
    <<"n","e","g","l","e","c","t">>,
    <<"d","e","l","a","y">>,
    <<"t","r","a","i","n","i","n","g">>,
    <<"s","u","p","e","r","v","i","s","i","o","n">>,
    <<"o","v","e","r","s","i","g","h","t">>,
    <<"p","r","o","t","o","c","o","l">>,
    <<"s","i","g","n","a","g","e">>,
    <<"f","a","u","l","t","y">>,
    <<"p","o","o","r">>,
    <<"i","n","a","d","e","q","u","a","t","e">>,
    <<"m","i","s","s","i","n","g">>,
    <<"b","r","o","k","e","n">>,
    <<"d","e","b","r","i","s">>,
    <<"p","o","t","h","o","l","e">>,
    <<"u","n","e","v","e","n">>,
    <<"i","c","y">>,
    <<"s","p","i","l","l">>,
    <<"d","e","f","e","c","t">>,
    <<"u","n","s","a","f","e">>,
    <<"h","a","z","a","r","d">>,
    <<"w","a","r","n","i","n","g">>,
    <<"b","a","r","r","i","e","r">>,
    <<"c","o","n","d","i","t","i","o","n">>>>

\* Python's  keyword in text  on strings
str_contains(keyword, text) ==
  \E i \in 0..(Len(text) - Len(keyword)) :
     /\ keyword # <<>> => text[i + 1] = keyword[1]
     /\ SubSeq(text, i + 1, i + Len(keyword)) = keyword

\* the mutant of the tagger that matches whole words only
identify_oversights_whole_word(text) ==
  SelectSeq(oversight_keywords,
            LAMBDA keyword : keyword \in Range(str_split(text, <<>>)))

\* lambda text: [keyword for keyword in oversight_keywords if keyword in text]
identify_oversights(text) ==
  SelectSeq(oversight_keywords, LAMBDA keyword : str_contains(keyword, text))

----------------------------------------------------------------------------
(* Specification of the text functions: clean_text, then the tagger, on a  *)
(* bounded set of raw texts                                                *)

\* pieces raw texts are built from: whitespace, punctuation, a digit, upper
\* case, stopwords, keywords and a prefix that embeds a keyword ("policy")
Fragments ==
  {<<" ">>, <<"\n">>, <<"'">>, <<"7">>, <<"x">>, <<"T">>, <<"h","e">>,
   <<"i","c","y">>, <<"p","o","l">>, <<"p","o","o","r">>, <<"d","o","n">>}

RECURSIVE Concat(_)
\* the fragments of f joined into one text
Concat(f) == IF f = <<>> THEN <<>> ELSE Head(f) \o Concat(Tail(f))

\* the loader is not part of the specification
LoadIdle ==
  /\ csv = None /\ schemaOK = FALSE /\ writeOK = FALSE
  /\ lpc = "idle" /\ lconn = "none" /\ loadReport = None

\* calculate_kpis and perform_analysis are not part of the specification
ReadersIdle ==
  /\ kpc = "idle" /\ kconn = "none" /\ kdf = <<>> /\ kpis = None
  /\ kpiFile = None /\ kexc = None
  /\ epc = "idle" /\ econn = "none" /\ edf = <<>> /\ eexc = None

\* generate_claims_data is not run
GenIdle ==
  /\ gpc = "idle"
  /\ settlement_amount = None /\ legal_costs = None /\ claim_status = None
  /\ data = <<>>

\* the first run of the analysis, with no artifact on disk
FirstRun ==
  /\ run = 1 /\ chartRun = 0 /\ mapRun = 0
  /\ prev = None /\ sortMemo = {} /\ topMemo = {}

PipeIdle ==
  /\ dbOpenable = FALSE
  /\ dbOK = FALSE /\ store = <<>> /\ conn = "none" /\ pc = "idle"
  /\ df = <<>> /\ oversight_loss = <<>> /\ oversight_analysis = <<>>
  /\ map_center = None /\ high_loss_claims = <<>> /\ visited = 0
  /\ markers = <<>> /\ exc = None
  /\ chartFile = None /\ mapFile = None /\ summary = None

InitText ==
  /\ PipeIdle
  /\ tpc = "raw"
  /\ \/ raw = None
     \/ \E n \in 0..MaxFrags : \E f \in [1..n -> Fragments] : raw = Some(Concat(f))
  /\ cleanedT = <<>>
  /\ tagsT = <<>>
  /\ recleanedT = <<>>
  /\ LoadIdle
  /\ FirstRun
  /\ ReadersIdle
  /\ GenIdle

\* df['Allegation_Details'].apply(clean_text) on one value
Clean ==
  /\ tpc = "raw"
  /\ cleanedT' = clean_text(raw)
  /\ tpc' = "cleaned"
  /\ UNCHANGED <<raw, tagsT, recleanedT>>
  /\ UNCHANGED <<pipeVars, loadVars, runVars, readerVars, genVars>>

\* df['Cleaned_Allegation_Details'].apply(lambda ...) on one value
Tag ==
  /\ tpc = "cleaned"
  /\ tagsT' = identify_oversights(cleanedT)
  /\ tpc' = "tagged"
  /\ UNCHANGED <<raw, cleanedT, recleanedT>>
  /\ UNCHANGED <<pipeVars, loadVars, runVars, readerVars, genVars>>

\* clean_text applied to a text it has already cleaned
Reclean ==
  /\ tpc = "tagged"
  /\ recleanedT' = clean_text(Some(cleanedT))
  /\ tpc' = "recleaned"
  /\ UNCHANGED <<raw, cleanedT, tagsT>>
  /\ UNCHANGED <<pipeVars, loadVars, runVars, readerVars, genVars>>

NextText == Clean \/ Tag \/ Reclean

SpecText == InitText /\ [][NextText]_vars

----------------------------------------------------------------------------
(* pandas primitives used by perform_root_cause_analysis *)

Min(a, b) == IF a <= b THEN a ELSE b

\* DataFrame.head(n) / Series.head(n)
head(rows, n) == SubSeq(rows, 1, Min(n, Len(rows)))

\* rows is in descending order of Total_Loss
IsDescending(rows) ==
  \A i \in 1..(Len(rows) - 1) : rows[i].Total_Loss >= rows[i + 1].Total_Loss

\* the mutant of sort_values_desc that does not sort
sort_values_noop(rows) == {rows}

\* sort_values(ascending=False) on Total_Loss.  The default kind is quicksort,
\* which is not stable: every descending arrangement of the rows is a
\* possible result, whatever the order of equal values was before.
sort_values_desc(rows) ==
  {s \in {[i \in 1..Len(rows) |-> rows[p[i]]] : p \in Permutations(1..Len(rows))} :
     IsDescending(s)}

\* r placed in the descending sequence sorted, after every row whose
\* Total_Loss is greater than or equal to its own
insert_desc(r, sorted) ==
  LET before == SelectSeq(sorted, LAMBDA x : x.Total_Loss >= r.Total_Loss)
      after  == SelectSeq(sorted, LAMBDA x : x.Total_Loss < r.Total_Loss)
  IN  before \o <<r>> \o after

RECURSIVE mergesort_desc(_)
\* argsort(kind="mergesort") of the negated Total_Loss: descending and stable
mergesort_desc(rows) ==
  IF rows = <<>> THEN <<>>
  ELSE insert_desc(rows[Len(rows)], mergesort_desc(SubSeq(rows, 1, Len(rows) - 1)))

\* the mutant of nlargest that prefers the later of equal rows (keep='last')
nlargest_keep_last(n, rows) ==
  IF n >= Len(rows)
  THEN {head(s, n) : s \in sort_values_desc(rows)}
  ELSE LET reversed == [i \in 1..Len(rows) |-> rows[Len(rows) + 1 - i]]
       IN  {head(mergesort_desc(reversed), n)}

\* DataFrame.nlargest(n, 'Total_Loss'), keep='first': with n >= len(rows)
\* pandas returns sort_values(ascending=False).head(n); otherwise it takes
\* the first n of a stable descending sort.  The set of possible results.
nlargest(n, rows) ==
  IF n >= Len(rows)
  THEN {head(s, n) : s \in sort_values_desc(rows)}
  ELSE {head(mergesort_desc(rows), n)}

\* Series.mean(), exact: <<sum, count>>
mean(values) == <<SumSeq(values), Len(values)>>

\* code point order of the characters of a keyword
char_rank(c) == CHOOSE i \in 1..26 : LowerLetters[i] = c

RECURSIVE str_less(_, _)
\* a < b on Python strings of lower-case letters
str_less(a, b) ==
  IF b = <<>> THEN FALSE
  ELSE IF a = <<>> THEN TRUE
  ELSE IF Head(a) = Head(b) THEN str_less(Tail(a), Tail(b))
  ELSE char_rank(Head(a)) < char_rank(Head(b))

RECURSIVE sorted_keys(_)
\* the group keys of groupby (sort=True): ascending string order
sorted_keys(S) ==
  IF S = {} THEN <<>>
  ELSE LET m == CHOOSE x \in S : \A y \in S : x = y \/ str_less(x, y)
       IN  <<m>> \o sorted_keys(S \ {m})

\* the values of column Total_Loss
losses(rows) == [i \in 1..Len(rows) |-> rows[i].Total_Loss]

\* the mutant of groupby_sum that counts each claim's loss once, under the
\* first tag it was seen with
groupby_sum_first_tag(rows) ==
  LET keys == sorted_keys({r.Oversight : r \in Range(rows)})
      first(i) == \A j \in 1..(i - 1) : rows[j].Claim_ID # rows[i].Claim_ID
      kept == MapIdx(rows, [i \in 1..Len(rows) |-> first(i)], 1)
  IN  [i \in 1..Len(keys) |->
         [Oversight  |-> keys[i],
          Total_Loss |-> SumSeq(losses(SelectSeq(kept,
                            LAMBDA r : r.Oversight = keys[i])))]]

\* the mutant of groupby_sum that keeps the first loss of each group (.first())
groupby_first(rows) ==
  LET keys == sorted_keys({r.Oversight : r \in Range(rows)})
  IN  [i \in 1..Len(keys) |->
         [Oversight  |-> keys[i],
          Total_Loss |-> Head(losses(SelectSeq(rows,
                            LAMBDA r : r.Oversight = keys[i])))]]

\* df_oversight_loss.groupby('Oversight')['Total_Loss'].sum()
groupby_sum(rows) ==
  LET keys == sorted_keys({r.Oversight : r \in Range(rows)})
  IN  [i \in 1..Len(keys) |->
         [Oversight  |-> keys[i],
          Total_Loss |-> SumSeq(losses(SelectSeq(rows,
                            LAMBDA r : r.Oversight = keys[i])))]]

\* the mutant of groupby_nunique that counts rows of the whole table
groupby_count_all(rows) ==
  LET keys == sorted_keys({r.Oversight : r \in Range(rows)})
  IN  [i \in 1..Len(keys) |->
         [Oversight |-> keys[i], Claim_Count |-> Len(rows)]]

\* df_oversight_loss.groupby('Oversight')['Claim_ID'].nunique()
groupby_nunique(rows) ==
  LET keys == sorted_keys({r.Oversight : r \in Range(rows)})
  IN  [i \in 1..Len(keys) |->
         [Oversight   |-> keys[i],
          Claim_Count |-> Cardinality({r.Claim_ID :
                             r \in {x \in Range(rows) : x.Oversight = keys[i]}})]]

\* total_loss_by_oversight.merge(claim_count_by_oversight, on='Oversight')
\* with Avg_Loss_Per_Claim added: an inner join in the order of the left rows
merge_avg(left, right) ==
  [i \in 1..Len(left) |->
     LET c == CHOOSE x \in Range(right) : x.Oversight = left[i].Oversight
     IN  [Oversight          |-> left[i].Oversight,
          Total_Loss         |-> left[i].Total_Loss,
          Claim_Count        |-> c.Claim_Count,
          Avg_Loss_Per_Claim |-> <<left[i].Total_Loss, c.Claim_Count>>]]

----------------------------------------------------------------------------
(* The stages of perform_root_cause_analysis *)

\* the SELECT of lines 115-125 on one row of the claims table
select_row(r) ==
  [Claim_ID           |-> r.Claim_ID,
   Allegation_Details |-> r.Allegation_Details,
   Total_Loss         |-> r.Settlement_Amount + r.Legal_Costs,
   Latitude           |-> r.Latitude,
   Longitude          |-> r.Longitude]

\* the columns Cleaned_Allegation_Details and Identified_Oversights added to
\* one row (lines 138 and 174-176)
tag_row(r) ==
  LET cleaned == clean_text(r.Allegation_Details)
  IN  [Claim_ID                   |-> r.Claim_ID,
       Allegation_Details         |-> r.Allegation_Details,
       Total_Loss                 |-> r.Total_Loss,
       Latitude                   |-> r.Latitude,
       Longitude                  |-> r.Longitude,
       Cleaned_Allegation_Details |-> cleaned,
       Identified_Oversights      |-> identify_oversights(cleaned)]

\* the mutant of df_oversights that also asks for both coordinates
df_oversights_valid_geo(d) ==
  SelectSeq(d, LAMBDA r : /\ Len(r.Identified_Oversights) > 0
                          /\ ~isna(r.Latitude) /\ ~isna(r.Longitude))

\* df[df['Identified_Oversights'].apply(len) > 0]
df_oversights(d) == SelectSeq(d, LAMBDA r : Len(r.Identified_Oversights) > 0)

RECURSIVE fan_out(_)
\* oversight_loss_data: one record per (claim, tag), claims in row order and
\* the tags of a claim in list order (lines 193-201)
fan_out(rows) ==
  IF rows = <<>> THEN <<>>
  ELSE LET row == Head(rows)
       IN  [i \in 1..Len(row.Identified_Oversights) |->
              [Oversight  |-> row.Identified_Oversights[i],
               Total_Loss |-> row.Total_Loss,
               Claim_ID   |-> row.Claim_ID]]
           \o fan_out(Tail(rows))

\* df.dropna(subset=['Latitude', 'Longitude'])
df_valid_geo(d) ==
  SelectSeq(d, LAMBDA r : ~isna(r.Latitude) /\ ~isna(r.Longitude))

\* loss above which a marker is red (line 402)
HighLossThreshold == 100000

\* loss above which a marker is orange (line 405)
MidLossThreshold == 50000

\* rows of the report shown in the chart (line 237)
ChartRows == 10

\* the mutant of icon_color with inclusive thresholds
icon_color_inclusive(loss) ==
  IF loss >= HighLossThreshold THEN "red"
  ELSE IF loss >= MidLossThreshold THEN "orange"
  ELSE "yellow"

\* the colour of a marker (lines 402-410)
icon_color(loss) ==
  IF loss > HighLossThreshold THEN "red"
  ELSE IF loss > MidLossThreshold THEN "orange"
  ELSE "yellow"

\* the mutant of compute_center that averages the plotted rows only
compute_center_selected(valid) ==
  LET top == CHOOSE t \in nlargest(TopN, valid) : TRUE
  IN  Some(<<mean([i \in 1..Len(top) |-> Get(top[i].Latitude)]),
             mean([i \in 1..Len(top) |-> Get(top[i].Longitude)])>>)

\* map_center of lines 278-281
compute_center(valid) ==
  Some(<<mean([i \in 1..Len(valid) |-> Get(valid[i].Latitude)]),
         mean([i \in 1..Len(valid) |-> Get(valid[i].Longitude)])>>)

\* sqlite3.connect(db_path), line 111
Connect ==
  /\ pc = "start"
  /\ dbOpenable
  /\ conn' = "open"
  /\ pc' = "connected"
  /\ UNCHANGED <<dbOpenable, dbOK, store, df, oversight_loss, oversight_analysis, map_center,
                 high_loss_claims, visited, markers, exc, chartFile, mapFile,
                 summary>>
  /\ UNCHANGED <<textVars, loadVars, readerVars, genVars, runVars>>

\* sqlite3.connect(db_path) at line 111, before the try of line 113, cannot
\* open the database file: sqlite3.OperationalError leaves the function
ConnectRaise ==
  /\ pc = "start"
  /\ ~dbOpenable
  /\ exc' = Some("OperationalError")
  /\ pc' = "raised"
  /\ UNCHANGED <<dbOpenable, dbOK, store, conn, df, oversight_loss,
                 oversight_analysis, map_center, high_loss_claims, visited,
                 markers, chartFile, mapFile, summary>>
  /\ UNCHANGED <<textVars, loadVars, readerVars, genVars, runVars>>

\* the mutant of ReadOK that deletes the rows it has read
ReadOKConsume ==
  /\ pc = "connected"
  /\ dbOK
  /\ df' = [i \in 1..Len(store) |-> select_row(store[i])]
  /\ store' = <<>>
  /\ conn' = "closed"
  /\ pc' = "loaded"
  /\ UNCHANGED <<dbOpenable, dbOK, oversight_loss, oversight_analysis, map_center,
                 high_loss_claims, visited, markers, exc, chartFile, mapFile,
                 summary>>
  /\ UNCHANGED <<textVars, loadVars, readerVars, genVars, runVars>>

\* pd.read_sql succeeds; the finally clause closes the connection (lines 113-134)
ReadOK ==
  /\ pc = "connected"
  /\ dbOK
  /\ df' = [i \in 1..Len(store) |-> select_row(store[i])]
  /\ conn' = "closed"
  /\ pc' = "loaded"
  /\ UNCHANGED <<dbOpenable, dbOK, store, oversight_loss, oversight_analysis, map_center,
                 high_loss_claims, visited, markers, exc, chartFile, mapFile,
                 summary>>
  /\ UNCHANGED <<textVars, loadVars, readerVars, genVars, runVars>>

\* pd.read_sql raises: diagnostic, close, return (lines 129-132)
ReadFail ==
  /\ pc = "connected"
  /\ ~dbOK
  /\ conn' = "closed"
  /\ pc' = "returned"
  /\ UNCHANGED <<dbOpenable, dbOK, store, df, oversight_loss, oversight_analysis, map_center,
                 high_loss_claims, visited, markers, exc, chartFile, mapFile,
                 summary>>
  /\ UNCHANGED <<textVars, loadVars, readerVars, genVars, runVars>>

\* cleaning, tagging and the detection rate of a non-empty table (lines 136-187)
Preprocess ==
  /\ pc = "loaded"
  /\ Len(df) > 0
  /\ df' = [i \in 1..Len(df) |-> tag_row(df[i])]
  /\ pc' = "tagged"
  /\ UNCHANGED <<dbOpenable, dbOK, store, conn, oversight_loss, oversight_analysis, map_center,
                 high_loss_claims, visited, markers, exc, chartFile, mapFile,
                 summary>>
  /\ UNCHANGED <<textVars, loadVars, readerVars, genVars, runVars>>

\* on an empty table len(df_oversights)/len(df) at line 182 divides by zero
PreprocessRaise ==
  /\ pc = "loaded"
  /\ Len(df) = 0
  /\ exc' = Some("ZeroDivisionError")
  /\ pc' = "raised"
  /\ UNCHANGED <<dbOpenable, dbOK, store, conn, df, oversight_loss, oversight_analysis,
                 map_center, high_loss_claims, visited, markers, chartFile,
                 mapFile, summary>>
  /\ UNCHANGED <<textVars, loadVars, readerVars, genVars, runVars>>

\* the mutant of write_html that leaves a file that exists as it is
write_html_keep_existing(old, content) ==
  IF old = None THEN Some(content) ELSE old

\* fig.write_html(output_file) and m.save(map_filename): the file holds the
\* new content, whatever it held before
write_html(old, content) == Some(content)

\* the mutant of sort_outcomes that forgets the earlier calls
sort_outcomes_forgetful(memo, input, outcomes) == outcomes

\* sort_values and nlargest leave the order among equal keys open, but they
\* are functions: a call on an input sorted before gives the outcome it gave
\* then, a call on a new input gives one of the outcomes
sort_outcomes(memo, input, outcomes) ==
  IF \E call \in memo : call[1] = input
  THEN {call[2] : call \in {c \in memo : c[1] = input}}
  ELSE outcomes

\* the financial roll-up and its chart (lines 193-259)
Aggregate ==
  /\ pc = "tagged"
  /\ LET loss_data == fan_out(df_oversights(df))
     IN  /\ loss_data # <<>>
         /\ oversight_loss' = loss_data
         /\ \E total_loss_by_oversight \in
                 sort_outcomes(sortMemo, groupby_sum(loss_data),
                               sort_values_desc(groupby_sum(loss_data))) :
               /\ sortMemo' =
                    sortMemo \cup {<<groupby_sum(loss_data), total_loss_by_oversight>>}
               /\ oversight_analysis' =
                    merge_avg(total_loss_by_oversight, groupby_nunique(loss_data))
               /\ chartFile' =
                    write_html(chartFile, head(total_loss_by_oversight, ChartRows))
  /\ chartRun' = run
  /\ pc' = "aggregated"
  /\ UNCHANGED <<dbOpenable, dbOK, store, conn, df, map_center,
                 high_loss_claims, visited, markers, exc, mapFile, summary>>
  /\ UNCHANGED <<textVars, loadVars, readerVars, genVars, run, mapRun, prev, topMemo>>

\* no claim carries a tag: the warning of line 262, no chart
AggregateEmpty ==
  /\ pc = "tagged"
  /\ fan_out(df_oversights(df)) = <<>>
  /\ oversight_loss' = <<>>
  /\ pc' = "aggregated"
  /\ UNCHANGED <<dbOpenable, dbOK, store, conn, df, oversight_analysis, map_center,
                 high_loss_claims, visited, markers, exc, chartFile, mapFile,
                 summary>>
  /\ UNCHANGED <<textVars, loadVars, readerVars, genVars, runVars>>

\* valid-geo rows exist: the map centre and the rows to plot (lines 268-299)
GeoSelect ==
  /\ pc = "aggregated"
  /\ df_valid_geo(df) # <<>>
  /\ map_center' = compute_center(df_valid_geo(df))
  /\ high_loss_claims' \in
       sort_outcomes(topMemo, df_valid_geo(df), nlargest(TopN, df_valid_geo(df)))
  /\ topMemo' = topMemo \cup {<<df_valid_geo(df), high_loss_claims'>>}
  /\ visited' = 0
  /\ markers' = <<>>
  /\ pc' = "markers"
  /\ UNCHANGED <<dbOpenable, dbOK, store, conn, df, oversight_loss,
                 oversight_analysis, exc, chartFile, mapFile, summary>>
  /\ UNCHANGED <<textVars, loadVars, readerVars, genVars, run, chartRun, mapRun, prev, sortMemo>>

\* the mutant of GeoSkip that returns after the warning
GeoSkipReturn ==
  /\ pc = "aggregated"
  /\ df_valid_geo(df) = <<>>
  /\ pc' = "returned"
  /\ UNCHANGED <<dbOpenable, dbOK, store, conn, df, oversight_loss, oversight_analysis,
                 map_center, high_loss_claims, visited, markers, exc, chartFile,
                 mapFile, summary>>
  /\ UNCHANGED <<textVars, loadVars, readerVars, genVars, runVars>>

\* no valid-geo row: the warning of line 428, no map
GeoSkip ==
  /\ pc = "aggregated"
  /\ df_valid_geo(df) = <<>>
  /\ pc' = "mapped"
  /\ UNCHANGED <<dbOpenable, dbOK, store, conn, df, oversight_loss, oversight_analysis,
                 map_center, high_loss_claims, visited, markers, exc, chartFile,
                 mapFile, summary>>
  /\ UNCHANGED <<textVars, loadVars, readerVars, genVars, runVars>>

\* one pass of the loop of lines 301-419 over a row with a narrative
AddMarker ==
  /\ pc = "markers"
  /\ visited < Len(high_loss_claims)
  /\ LET row == high_loss_claims[visited + 1]
     IN  /\ ~IsNone(row.Allegation_Details)
         /\ markers' =
              IF ~isna(row.Latitude) /\ ~isna(row.Longitude)
              THEN Append(markers,
                          [Claim_ID |-> row.Claim_ID,
                           location |-> <<Get(row.Latitude), Get(row.Longitude)>>,
                           color    |-> icon_color(row.Total_Loss)])
              ELSE markers
  /\ visited' = visited + 1
  /\ UNCHANGED <<dbOpenable, dbOK, store, conn, pc, df, oversight_loss, oversight_analysis,
                 map_center, high_loss_claims, exc, chartFile, mapFile, summary>>
  /\ UNCHANGED <<textVars, loadVars, readerVars, genVars, runVars>>

\* one pass of the loop over a row whose Allegation_Details is None: the
\* subscript row['Allegation_Details'][:400] of line 384 raises TypeError
AddMarkerRaise ==
  /\ pc = "markers"
  /\ visited < Len(high_loss_claims)
  /\ IsNone(high_loss_claims[visited + 1].Allegation_Details)
  /\ exc' = Some("TypeError")
  /\ pc' = "raised"
  /\ UNCHANGED <<dbOpenable, dbOK, store, conn, df, oversight_loss, oversight_analysis,
                 map_center, high_loss_claims, visited, markers, chartFile,
                 mapFile, summary>>
  /\ UNCHANGED <<textVars, loadVars, readerVars, genVars, runVars>>

\* m.save(map_filename) after the loop (lines 421-425)
SaveMap ==
  /\ pc = "markers"
  /\ visited = Len(high_loss_claims)
  /\ mapFile' = write_html(mapFile, [location |-> map_center, markers |-> markers])
  /\ mapRun' = run
  /\ pc' = "mapped"
  /\ UNCHANGED <<dbOpenable, dbOK, store, conn, df, oversight_loss, oversight_analysis,
                 map_center, high_loss_claims, visited, markers, exc, chartFile,
                 summary>>
  /\ UNCHANGED <<textVars, loadVars, readerVars, genVars, run, chartRun, prev, sortMemo, topMemo>>

\* the analysis summary (lines 430-448)
Summarise ==
  /\ pc = "mapped"
  /\ summary' =
       Some([total_claims     |-> Len(df),
             oversight_claims |-> Len(df_oversights(df)),
             detection_rate   |-> <<Len(df_oversights(df)) * 100, Len(df)>>,
             oversight_loss   |-> IF oversight_loss = <<>> THEN None
                                  ELSE Some(SumSeq(losses(oversight_loss))),
             total_exposure   |-> SumSeq(losses(df)),
             geo_records      |-> Len(df_valid_geo(df))])
  /\ pc' = "done"
  /\ UNCHANGED <<dbOpenable, dbOK, store, conn, df, oversight_loss, oversight_analysis,
                 map_center, high_loss_claims, visited, markers, exc, chartFile,
                 mapFile>>
  /\ UNCHANGED <<textVars, loadVars, readerVars, genVars, runVars>>

Next ==
  \/ Connect \/ ConnectRaise \/ ReadOK \/ ReadFail
  \/ Preprocess \/ PreprocessRaise
  \/ Aggregate \/ AggregateEmpty
  \/ GeoSelect \/ GeoSkip
  \/ AddMarker \/ AddMarkerRaise \/ SaveMap
  \/ Summarise

----------------------------------------------------------------------------
(* Claim tables the specifications start from *)

\* "A fall": cleaned to "fall", no keyword
TxtNone == Some(<<"A"," ","f","a","l","l">>)

\* "POLICY": "icy" inside "policy"
TxtPolicy == Some(<<"P","O","L","I","C","Y">>)

\* "No repair/delay": cleaned to the one word "repairdelay"
TxtRepair ==
  Some(<<"N","o"," ","r","e","p","a","i","r","/","d","e","l","a","y">>)

\* "Icy; poor repair"
TxtIcy ==
  Some(<<"I","c","y",";"," ","p","o","o","r"," ","r","e","p","a","i","r">>)

Row(text, settlement, legal, lat, lon) ==
  [Allegation_Details |-> text, Settlement_Amount |-> settlement,
   Legal_Costs |-> legal, Latitude |-> lat, Longitude |-> lon]

\* rows that vary the narrative and the loss; they have no latitude, and two
\* more rows have both coordinates, one of them without a narrative
FinRows ==
  {Row(text, amounts[1], amounts[2], None, Some(-87)) :
     text \in {None, TxtNone, TxtPolicy, TxtRepair, TxtIcy},
     amounts \in {<<0, 0>>, <<2, 1>>}}
  \cup {Row(TxtIcy, 5, 0, Some(41), Some(-87)),
        Row(None, 2, 1, Some(41), Some(-87))}

\* rows that vary the coordinates and the loss around the colour thresholds
GeoRows ==
  {Row(TxtPolicy, amounts[1], amounts[2], lat, Some(-87)) :
     amounts \in {<<50000, 0>>, <<50000, 1>>, <<100000, 0>>, <<100000, 1>>},
     lat \in {None, Some(41), Some(43)}}
  \cup {Row(TxtPolicy, 50000, 0, Some(41), None),
        Row(None, 100000, 1, Some(41), Some(-87))}

\* the table made of the n rows f; Claim_ID is the row number
Table(f, n) ==
  [i \in 1..n |->
     [Claim_ID           |-> i,
      Allegation_Details |-> f[i].Allegation_Details,
      Settlement_Amount  |-> f[i].Settlement_Amount,
      Legal_Costs        |-> f[i].Legal_Costs,
      Latitude           |-> f[i].Latitude,
      Longitude          |-> f[i].Longitude]]

TextIdle ==
  /\ tpc = "idle" /\ raw = None
  /\ cleanedT = <<>> /\ tagsT = <<>> /\ recleanedT = <<>>

InitRun(Rows) ==
  /\ \/ dbOpenable = FALSE /\ dbOK = FALSE /\ store = <<>>
     \/ dbOpenable = TRUE /\ dbOK = FALSE /\ store = <<>>
     \/ /\ dbOpenable = TRUE
        /\ dbOK = TRUE
        /\ \E n \in 0..MaxClaims : \E f \in [1..n -> Rows] : store = Table(f, n)
  /\ conn = "none" /\ pc = "start"
  /\ df = <<>> /\ oversight_loss = <<>> /\ oversight_analysis = <<>>
  /\ map_center = None /\ high_loss_claims = <<>> /\ visited = 0
  /\ markers = <<>> /\ exc = None
  /\ chartFile = None /\ mapFile = None /\ summary = None
  /\ TextIdle
  /\ LoadIdle
  /\ FirstRun
  /\ ReadersIdle
  /\ GenIdle

Init == InitRun(FinRows)

InitGeo == InitRun(GeoRows)

Spec == Init /\ [][Next]_vars

SpecGeo == InitGeo /\ [][Next]_vars

----------------------------------------------------------------------------
(* load_csv_to_db of load_data_to_db.py, followed by the analysis *)

\* a cell of the CSV file as pd.read_csv hands it over: empty, a number, or
\* a text that is no number
CellEmpty == [kind |-> "empty"]

CellNum(n) == [kind |-> "num", v |-> n]

CellText == [kind |-> "text"]

\* pd.to_numeric(df[col], errors='coerce') on one cell: NaN for an empty
\* cell and for a text that is no number
to_numeric(cell) == IF cell.kind = "num" THEN Some(cell.v) ELSE None

\* .fillna(value) on one value
fillna(x, value) == IF isna(x) THEN value ELSE Get(x)

\* a stored date: the text 'YYYY-MM-DD' of a day in month m of year y, a
\* text that is no date, or NULL
DateOf(y, m) == [kind |-> "date", y |-> y, m |-> m]

DateText == [kind |-> "text"]

DateNull == [kind |-> "null"]

\* pd.to_datetime(df[date_col], errors='coerce') on one value: year and month
\* of the timestamp, NaT for NULL and for a text that is no date
to_datetime(d) == IF d.kind = "date" THEN Some(<<d.y, d.m>>) ELSE None

\* pd.to_datetime(df[date_col], errors='coerce').dt.strftime('%Y-%m-%d') on
\* one value (lines 88-92): what is no date becomes NULL
strftime_date(d) == IF isna(to_datetime(d)) THEN DateNull ELSE d

\* lines 88-101 on the i-th row of the DataFrame, as to_sql writes it
load_row(r, i) ==
  [Claim_ID           |-> i,
   Allegation_Details |-> r.Allegation_Details,
   Date_of_Incident   |-> strftime_date(r.Date_of_Incident),
   Claim_Status       |-> r.Claim_Status,
   Settlement_Amount  |-> fillna(to_numeric(r.Settlement_Amount), 0),
   Legal_Costs        |-> fillna(to_numeric(r.Legal_Costs), 0),
   Latitude           |-> Some(fillna(to_numeric(r.Latitude), 0)),
   Longitude          |-> Some(fillna(to_numeric(r.Longitude), 0))]

\* sqlite3.connect(db_path) at line 42
LoadConnect ==
  /\ lpc = "start"
  /\ dbOpenable
  /\ lconn' = "open"
  /\ lpc' = "connected"
  /\ UNCHANGED <<csv, schemaOK, writeOK, loadReport>>
  /\ UNCHANGED <<pipeVars, textVars, runVars, readerVars, genVars>>

\* sqlite3.connect(db_path) at line 42, outside any try, cannot open the file
LoadConnectRaise ==
  /\ lpc = "start"
  /\ ~dbOpenable
  /\ lpc' = "raised"
  /\ UNCHANGED <<csv, schemaOK, writeOK, lconn, loadReport>>
  /\ UNCHANGED <<pipeVars, textVars, runVars, readerVars, genVars>>

\* cursor.executescript(schema_sql) succeeds (lines 46-56): the claims table
\* exists afterwards; sql/schema.sql is not among the sources, so a table that
\* existed before is either kept (CREATE TABLE IF NOT EXISTS) or recreated
\* empty (DROP TABLE, CREATE TABLE)
SchemaDone ==
  /\ lpc = "connected"
  /\ schemaOK
  /\ dbOK' = TRUE
  /\ store' \in {store, <<>>}
  /\ lpc' = "schema"
  /\ UNCHANGED <<dbOpenable, conn, pc, df, oversight_loss, oversight_analysis,
                 map_center, high_loss_claims, visited, markers, exc, chartFile,
                 mapFile, summary>>
  /\ UNCHANGED <<csv, schemaOK, writeOK, lconn, loadReport>>
  /\ UNCHANGED <<textVars, runVars, readerVars, genVars>>

\* the mutant of SchemaFail that returns without closing the connection
SchemaFailNoClose ==
  /\ lpc = "connected"
  /\ ~schemaOK
  /\ lpc' = "returned"
  /\ UNCHANGED <<csv, schemaOK, writeOK, lconn, loadReport>>
  /\ UNCHANGED <<pipeVars, textVars, runVars, readerVars, genVars>>

\* the schema file is missing or its script fails: diagnostic, close, return
\* (lines 58-65)
SchemaFail ==
  /\ lpc = "connected"
  /\ ~schemaOK
  /\ lconn' = "closed"
  /\ lpc' = "returned"
  /\ UNCHANGED <<csv, schemaOK, writeOK, loadReport>>
  /\ UNCHANGED <<pipeVars, textVars, runVars, readerVars, genVars>>

\* pd.read_csv raises: diagnostic, close, return (lines 73-81)
ReadCsvFail ==
  /\ lpc = "schema"
  /\ csv = None
  /\ lconn' = "closed"
  /\ lpc' = "returned"
  /\ UNCHANGED <<csv, schemaOK, writeOK, loadReport>>
  /\ UNCHANGED <<pipeVars, textVars, runVars, readerVars, genVars>>

\* the mutant of to_sql that appends to the table (if_exists='append')
to_sql_append(old, rows) == old \o rows

\* df.to_sql(table_name, conn, if_exists='replace', index=False) (line 119):
\* the table afterwards, given the table before and the rows of the frame
to_sql(old, rows) == rows

\* pd.read_csv, the numeric cleaning, to_sql(if_exists='replace'), the
\* printed figures and the close of the finally clause (lines 68-140)
LoadRows ==
  /\ lpc = "schema"
  /\ csv # None
  /\ writeOK
  /\ LET rows == [i \in 1..Len(Get(csv)) |-> load_row(Get(csv)[i], i)]
     IN  /\ store' = to_sql(store, rows)
         /\ loadReport' =
              Some([records_read   |-> Len(Get(csv)),
                    record_count   |-> Some(Len(to_sql(store, rows))),
                    total_exposure |->
                      Some(SumSeq([i \in 1..Len(rows) |-> rows[i].Settlement_Amount])
                           + SumSeq([i \in 1..Len(rows) |-> rows[i].Legal_Costs]))])
  /\ dbOK' = TRUE
  /\ lconn' = "closed"
  /\ lpc' = "done"
  /\ UNCHANGED <<dbOpenable, conn, pc, df, oversight_loss, oversight_analysis,
                 map_center, high_loss_claims, visited, markers, exc, chartFile,
                 mapFile, summary>>
  /\ UNCHANGED <<csv, schemaOK, writeOK>>
  /\ UNCHANGED <<textVars, runVars, readerVars, genVars>>

\* df.to_sql raises (lines 133-140): diagnostic and close. The table is as
\* it was if the failure came before the replace; otherwise it was dropped
\* and is missing, or was created again and is empty (the inserts are rolled
\* back)
LoadRowsFail ==
  /\ lpc = "schema"
  /\ csv # None
  /\ ~writeOK
  /\ \/ UNCHANGED <<dbOK, store>>
     \/ dbOK' = FALSE /\ store' = <<>>
     \/ dbOK' = TRUE /\ store' = <<>>
  /\ loadReport' = Some([records_read   |-> Len(Get(csv)),
                         record_count   |-> None,
                         total_exposure |-> None])
  /\ lconn' = "closed"
  /\ lpc' = "done"
  /\ UNCHANGED <<dbOpenable, conn, pc, df, oversight_loss, oversight_analysis,
                 map_center, high_loss_claims, visited, markers, exc, chartFile,
                 mapFile, summary>>
  /\ UNCHANGED <<csv, schemaOK, writeOK>>
  /\ UNCHANGED <<textVars, runVars, readerVars, genVars>>

\* text_analysis.py is run once the loader has ended (lines 451-466)
RunAnalysis ==
  /\ pc = "idle"
  /\ lpc \in {"done", "returned", "raised"}
  /\ pc' = "start"
  /\ UNCHANGED <<dbOpenable, dbOK, store, conn, df, oversight_loss,
                 oversight_analysis, map_center, high_loss_claims, visited,
                 markers, exc, chartFile, mapFile, summary>>
  /\ UNCHANGED <<textVars, loadVars, readerVars, genVars, runVars>>

NextLoad ==
  \/ LoadConnect \/ LoadConnectRaise
  \/ SchemaDone \/ SchemaFail
  \/ ReadCsvFail \/ LoadRows \/ LoadRowsFail
  \/ RunAnalysis
  \/ Next

CsvRowDated(text, settlement, legal, lat, lon, date, status) ==
  [Allegation_Details |-> text, Settlement_Amount |-> settlement,
   Legal_Costs |-> legal, Latitude |-> lat, Longitude |-> lon,
   Date_of_Incident |-> date, Claim_Status |-> status]

\* a CSV row of an open claim with an incident in January 2015
CsvRow(text, settlement, legal, lat, lon) ==
  CsvRowDated(text, settlement, legal, lat, lon, DateOf(2015, 1), Some("Open"))

\* two complete rows, and rows with one cell empty or not a number
CsvRows ==
  {CsvRow(TxtPolicy, CellNum(50000), CellNum(1), CellNum(41), CellNum(-87)),
   CsvRow(TxtPolicy, CellNum(100000), CellNum(1), CellNum(43), CellNum(-87)),
   CsvRow(TxtPolicy, CellNum(50000), CellNum(1), CellEmpty, CellNum(-87)),
   CsvRow(TxtPolicy, CellNum(50000), CellNum(1), CellNum(41), CellText),
   CsvRow(TxtNone, CellText, CellNum(1), CellNum(41), CellNum(-87)),
   CsvRow(TxtPolicy, CellNum(50000), CellEmpty, CellNum(41), CellNum(-87))}

\* rows of a table that is in the database before the loader runs
OldRows ==
  {Row(TxtPolicy, 5, 0, None, Some(-87)),
   Row(None, 2, 1, Some(41), Some(-87))}

InitLoad ==
  /\ \/ /\ dbOpenable = FALSE /\ dbOK = FALSE /\ store = <<>>
        /\ schemaOK = TRUE /\ writeOK = TRUE
     \/ /\ dbOpenable = TRUE
        /\ \/ dbOK = FALSE /\ store = <<>>
           \/ /\ dbOK = TRUE
              /\ \E f \in [1..1 -> OldRows] : store = Table(f, 1)
        /\ \E ok \in {<<TRUE, TRUE>>, <<FALSE, TRUE>>, <<TRUE, FALSE>>} :
              schemaOK = ok[1] /\ writeOK = ok[2]
  /\ \/ csv = None
     \/ \E n \in 0..MaxClaims : \E f \in [1..n -> CsvRows] : csv = Some(f)
  /\ lpc = "start" /\ lconn = "none" /\ loadReport = None
  /\ conn = "none" /\ pc = "idle"
  /\ df = <<>> /\ oversight_loss = <<>> /\ oversight_analysis = <<>>
  /\ map_center = None /\ high_loss_claims = <<>> /\ visited = 0
  /\ markers = <<>> /\ exc = None
  /\ chartFile = None /\ mapFile = None /\ summary = None
  /\ TextIdle
  /\ FirstRun
  /\ ReadersIdle
  /\ GenIdle

SpecLoad == InitLoad /\ [][NextLoad]_vars

\* load_data_to_db.py is run once more, over the same CSV file and the
\* database as the run before left it, which prev keeps
LoadAgain ==
  /\ lpc \in {"done", "returned", "raised"}
  /\ prev = None
  /\ prev' = Some([dbOK |-> dbOK, store |-> store, lpc |-> lpc,
                   loadReport |-> loadReport])
  /\ lpc' = "start"
  /\ lconn' = "none"
  /\ loadReport' = None
  /\ UNCHANGED <<csv, schemaOK, writeOK>>
  /\ UNCHANGED <<run, chartRun, mapRun, sortMemo, topMemo>>
  /\ UNCHANGED <<pipeVars, textVars, readerVars, genVars>>

NextReload ==
  \/ LoadConnect \/ LoadConnectRaise
  \/ SchemaDone \/ SchemaFail
  \/ ReadCsvFail \/ LoadRows \/ LoadRowsFail
  \/ LoadAgain

SpecReload == InitLoad /\ [][NextReload]_vars

----------------------------------------------------------------------------
(* Claims about the text functions *)

\* position of keyword k in the taxonomy
KeywordIndex(k) ==
  CHOOSE i \in 1..Len(oversight_keywords) : oversight_keywords[i] = k

\* k occurs in t as a run of consecutive characters
OccursIn(k, t) ==
  \E off \in 0..Len(t) :
     /\ off + Len(k) <= Len(t)
     /\ \A j \in 1..Len(k) : t[off + j] = k[j]

\* C1: the tag list of a cleaned text is the sub-sequence of the taxonomy, in
\* declaration order and without duplicates, of the keywords that occur as a
\* substring of the text (inside a longer word too); it is a function of the
\* text, and the empty text has no tags.
C1_TagsAreMatchingKeywordsInOrder ==
  tpc = "tagged" =>
    /\ \A i \in 1..Len(tagsT) : tagsT[i] \in Range(oversight_keywords)
    /\ \A i, j \in 1..Len(tagsT) :
          i < j => KeywordIndex(tagsT[i]) < KeywordIndex(tagsT[j])
    /\ \A k \in Range(oversight_keywords) :
          (k \in Range(tagsT)) <=> OccursIn(k, cleanedT)
    /\ (cleanedT = <<>> => tagsT = <<>>)

\* a text whose keywords appear in the opposite of the declaration order, one
\* of them ("icy") only inside the longer word "policy"
C1_Witness ==
  /\ tpc = "tagged"
  /\ cleanedT = <<"p","o","l","i","c","y"," ","p","o","o","r">>
  /\ tagsT = << <<"p","o","o","r">>, <<"i","c","y">> >>

\* positions i..j of c hold one whole token: a maximal run without a space
IsToken(c, i, j) ==
  /\ i <= j
  /\ i = 1 \/ c[i - 1] = " "
  /\ j = Len(c) \/ c[j + 1] = " "
  /\ \A k \in i..j : c[k] # " "

\* C10: every token of clean_text's output is made of the letters a-z, has
\* length at least 2 and is no stopword; tokens are separated by single
\* spaces, with no leading or trailing whitespace.
C10_CleanedTokensWellFormed ==
  tpc # "raw" =>
    /\ \A i \in 1..Len(cleanedT) : cleanedT[i] \in AZ \/ cleanedT[i] = " "
    /\ cleanedT # <<>> => cleanedT[1] # " " /\ cleanedT[Len(cleanedT)] # " "
    /\ \A i \in 1..(Len(cleanedT) - 1) :
          ~(cleanedT[i] = " " /\ cleanedT[i + 1] = " ")
    /\ \A i, j \in 1..Len(cleanedT) :
          IsToken(cleanedT, i, j) =>
            /\ j - i + 1 >= 2
            /\ SubSeq(cleanedT, i, j) \notin stop_words

\* a raw text with punctuation inside a word and a trailing newline, cleaned
\* to the single token "xx"
C10_Witness ==
  /\ tpc = "cleaned"
  /\ raw = Some(<<"x","'","x","\n">>)
  /\ cleanedT = <<"x","x">>

\* C11: clean_text is idempotent: cleaning a text that clean_text has already
\* produced returns that text unchanged.
C11_CleanTextIdempotent ==
  tpc = "recleaned" => recleanedT = cleanedT

\* "don'T " is cleaned to "dont", and cleaning "dont" gives "dont" again
C11_Witness ==
  /\ tpc = "recleaned"
  /\ raw = Some(<<"d","o","n","'","T"," ">>)
  /\ cleanedT = <<"d","o","n","t">>
  /\ recleanedT = <<"d","o","n","t">>

RECURSIVE Normalised(_)
\* a text, character by character: a capital letter becomes its small
\* letter, and then every character that is neither a-z nor whitespace goes
Normalised(s) ==
  IF s = <<>> THEN <<>>
  ELSE LET c == IF Head(s) \in Range(UpperLetters)
                THEN lower_char(Head(s)) ELSE Head(s)
       IN  (IF c \in AZ \cup Whitespace THEN <<c>> ELSE <<>>)
             \o Normalised(Tail(s))

\* a whitespace-separated token of c starts at position i
TokenStartsAt(c, i) ==
  /\ c[i] \notin Whitespace
  /\ i = 1 \/ c[i - 1] \in Whitespace

\* the last position of the token of c that starts at position i
TokenEnd(c, i) ==
  CHOOSE j \in i..Len(c) :
    /\ \A k \in i..j : c[k] \notin Whitespace
    /\ j = Len(c) \/ c[j + 1] \in Whitespace

RECURSIVE TokensFrom(_, _)
\* the whitespace-separated tokens of c that start at position i or later,
\* in the order of their positions
TokensFrom(c, i) ==
  IF i > Len(c) THEN <<>>
  ELSE IF TokenStartsAt(c, i)
       THEN <<SubSeq(c, i, TokenEnd(c, i))>> \o TokensFrom(c, i + 1)
       ELSE TokensFrom(c, i + 1)

\* C12: clean_text keeps order and does not stem: the tokens of its output
\* are exactly the whitespace-separated tokens of the lowercased input with
\* the characters outside a-z and whitespace deleted, without the stopwords
\* and the tokens of length 1 or less, in their original relative order and
\* each token unchanged.
C12_CleanTextKeepsTokensInOrder ==
  (tpc # "raw" /\ raw # None) =>
    TokensFrom(cleanedT, 1) =
      SelectSeq(TokensFrom(Normalised(Get(raw)), 1),
                LAMBDA t : t \notin stop_words /\ Len(t) > 1)

\* "pol icy'" keeps its two tokens, unstemmed and in the order of the input
C12_Witness ==
  /\ tpc = "cleaned"
  /\ raw = Some(<<"p","o","l"," ","i","c","y","'">>)
  /\ cleanedT = <<"p","o","l"," ","i","c","y">>

\* C13: clean_text of a null value (None or NaN) is the empty string; the
\* call returns it and raises nothing.
C13_NullCleansToEmpty ==
  (tpc # "raw" /\ isna(raw)) => cleanedT = <<>>

\* a null narrative that clean_text has been applied to
C13_Witness ==
  /\ tpc = "cleaned"
  /\ raw = None
  /\ cleanedT = <<>>

----------------------------------------------------------------------------
(* Claims about the financial roll-up (specification Spec) *)

\* the roll-up has run on a table with at least one tagged claim
Aggregated == oversight_loss # <<>>

\* Settlement_Amount + Legal_Costs of the i-th claim of the table
LossOf(i) == store[i].Settlement_Amount + store[i].Legal_Costs

\* the claims (row numbers) whose tag list contains k
Carriers(k) == {i \in 1..Len(df) : k \in Range(df[i].Identified_Oversights)}

RECURSIVE SumLossOver(_)
SumLossOver(I) ==
  IF I = {} THEN 0
  ELSE LET i == CHOOSE x \in I : TRUE IN LossOf(i) + SumLossOver(I \ {i})

\* C2: for every reported tag k, Total_Loss(k) is the sum of the losses of
\* all claims whose tag list contains k (a claim with several tags counts in
\* full under each), Claim_Count(k) is the number of distinct claims carrying
\* k, and Avg_Loss_Per_Claim(k) = Total_Loss(k) / Claim_Count(k).
C2_PerTagTotalCountAverage ==
  Aggregated =>
    /\ {r.Oversight : r \in Range(oversight_analysis)}
         = {k \in Range(oversight_keywords) : Carriers(k) # {}}
    /\ \A r \in Range(oversight_analysis) :
          /\ r.Total_Loss = SumLossOver(Carriers(r.Oversight))
          /\ r.Claim_Count = Cardinality(Carriers(r.Oversight))
          /\ r.Avg_Loss_Per_Claim[2] # 0
          /\ r.Avg_Loss_Per_Claim[1] * r.Claim_Count
               = r.Total_Loss * r.Avg_Loss_Per_Claim[2]

\* a tag carried by two claims with different positive losses, one of which
\* carries several tags
C2_Witness ==
  /\ Aggregated
  /\ \E r \in Range(oversight_analysis) :
        /\ r.Claim_Count = 2
        /\ r.Total_Loss = 8
        /\ \E i \in Carriers(r.Oversight) : Len(df[i].Identified_Oversights) >= 2

\* sum of the per-tag totals of the report
SumOfTagTotals == SumSeq(losses(oversight_analysis))

\* the claims that carry at least one tag
Tagged == {i \in 1..Len(df) : df[i].Identified_Oversights # <<>>}

\* C3: with non-negative losses, the sum of the per-tag totals is at least
\* the total loss of the claims that carry a tag, and equals it when no
\* claim carries more than one tag.
C3_TagTotalsCoverTaggedExposure ==
  Aggregated =>
    /\ \A i \in 1..Len(df) : LossOf(i) >= 0
    /\ SumOfTagTotals >= SumLossOver(Tagged)
    /\ (\A i \in 1..Len(df) : Len(df[i].Identified_Oversights) <= 1)
         => SumOfTagTotals = SumLossOver(Tagged)

\* double counting happens: a multi-tag claim with a positive loss next to a
\* single-tag claim
C3_Witness ==
  /\ Aggregated
  /\ SumOfTagTotals > SumLossOver(Tagged)
  /\ \E i \in Tagged : Len(df[i].Identified_Oversights) = 1 /\ LossOf(i) > 0

\* position of the first fan-out record of tag k
FirstSeen(k) ==
  CHOOSE i \in 1..Len(oversight_loss) :
    /\ oversight_loss[i].Oversight = k
    /\ \A j \in 1..(i - 1) : oversight_loss[j].Oversight # k

\* C4 as stated: the report is ordered by total loss descending and tags
\* with equal totals are in first-seen order.
C4_Original_TiesInFirstSeenOrder ==
  Aggregated =>
    /\ IsDescending(oversight_analysis)
    /\ \A i, j \in 1..Len(oversight_analysis) :
          (i < j /\ oversight_analysis[i].Total_Loss = oversight_analysis[j].Total_Loss)
            => FirstSeen(oversight_analysis[i].Oversight)
                 < FirstSeen(oversight_analysis[j].Oversight)

\* C4, amended: the report holds every carried tag exactly once, ordered by
\* total loss descending; the order among equal totals is not fixed.
C4_ReportDescendingByTotalLoss ==
  Aggregated =>
    /\ IsDescending(oversight_analysis)
    /\ \A i, j \in 1..Len(oversight_analysis) :
          i # j => oversight_analysis[i].Oversight # oversight_analysis[j].Oversight
    /\ {r.Oversight : r \in Range(oversight_analysis)}
         = {r.Oversight : r \in Range(oversight_loss)}

\* a report with a tie and a strictly larger total ahead of it, whose groups
\* were not in descending order when they reached the sort
C4_Witness ==
  /\ Aggregated
  /\ Len(oversight_analysis) >= 3
  /\ oversight_analysis[1].Total_Loss > oversight_analysis[2].Total_Loss
  /\ oversight_analysis[2].Total_Loss = oversight_analysis[3].Total_Loss
  /\ ~IsDescending(groupby_sum(oversight_loss))

\* C5: a claim with no tag contributes to no row of the report: there is no
\* bucket for untagged claims, every reported tag is carried by at least one
\* claim, and no per-tag claim count exceeds the number of claims.
C5_UntaggedClaimsExcluded ==
  Aggregated =>
    /\ \A rec \in Range(oversight_loss) :
          \E i \in Tagged : /\ df[i].Claim_ID = rec.Claim_ID
                            /\ rec.Oversight \in Range(df[i].Identified_Oversights)
    /\ \A r \in Range(oversight_analysis) :
          /\ r.Oversight \in Range(oversight_keywords)
          /\ Carriers(r.Oversight) # {}
          /\ r.Claim_Count >= 1
          /\ r.Claim_Count <= Len(df)

\* a report over a table that holds an untagged claim with a narrative and a
\* positive loss
C5_Witness ==
  /\ Aggregated
  /\ oversight_analysis # <<>>
  /\ \E i \in 1..Len(df) :
        /\ i \notin Tagged
        /\ ~IsNone(df[i].Allegation_Details)
        /\ LossOf(i) > 0

----------------------------------------------------------------------------
(* Claims about the geospatial stage (specification SpecGeo) *)

\* the claims (row numbers) with both coordinates present
ValidGeo ==
  {i \in 1..Len(store) : store[i].Latitude # None /\ store[i].Longitude # None}

\* the geospatial stage has chosen the rows to plot
Selected == pc = "markers" \/ (map_center # None /\ pc \in {"mapped", "done", "raised"})

\* the geospatial stage is over: the map was saved, there was nothing to
\* map, or the marker loop raised
GeoOver == pc \in {"mapped", "done"} \/ (pc = "raised" /\ exc = Some("TypeError"))

\* row numbers of the rows chosen for markers
SelectedIds == {r.Claim_ID : r \in Range(high_loss_claims)}

\* C6 as stated: the rows selected for markers have both coordinates, there
\* are min(TopN, number of valid-geo claims) of them, and each got exactly
\* one marker.
C6_Original_OneMarkerPerSelectedClaim ==
  GeoOver =>
    /\ \A r \in Range(high_loss_claims) :
          r.Latitude # None /\ r.Longitude # None
    /\ Len(high_loss_claims) = Min(TopN, Cardinality(ValidGeo))
    /\ Len(markers) = Len(high_loss_claims)
    /\ \A r \in Range(high_loss_claims) :
          Cardinality({k \in 1..Len(markers) : markers[k].Claim_ID = r.Claim_ID}) = 1

\* position in high_loss_claims of claim id
VisitPos(id) == CHOOSE k \in 1..Len(high_loss_claims) : high_loss_claims[k].Claim_ID = id

\* the selected rows are the valid-geo rows with the highest losses, and of
\* rows that tie at the cut-off the earlier ones are selected
TopByLossFirstKept ==
  /\ SelectedIds \subseteq ValidGeo
  /\ Len(high_loss_claims) = Cardinality(SelectedIds)
  /\ \A u \in ValidGeo \ SelectedIds : \A s \in SelectedIds :
        \/ LossOf(u) < LossOf(s)
        \/ LossOf(u) = LossOf(s) /\ s < u

\* the selected rows are visited in descending loss order, rows of equal
\* loss in their original order
VisitedDescendingStable ==
  \A a, b \in SelectedIds :
     VisitPos(a) < VisitPos(b) =>
       \/ LossOf(a) > LossOf(b)
       \/ LossOf(a) = LossOf(b) /\ a < b

\* C7 as stated: the selected rows are the TopN valid-geo rows of highest
\* loss, cut-off ties go to the earlier rows, and the rows are visited in
\* descending loss order with ties in original order.
C7_Original_TopNVisitedStable ==
  Selected => TopByLossFirstKept /\ VisitedDescendingStable

\* C7, amended: as stated, except that ties are visited in original order
\* only when there are more valid-geo rows than TopN.
C7_TopNByLossStableAboveCutoff ==
  Selected =>
    /\ TopByLossFirstKept
    /\ IsDescending(high_loss_claims)
    /\ Cardinality(ValidGeo) > TopN => VisitedDescendingStable

\* more valid-geo rows than TopN, with a tie across the cut-off and a tie
\* among the selected rows
C7_Witness ==
  /\ pc = "markers"
  /\ Cardinality(ValidGeo) > TopN
  /\ \E u \in ValidGeo \ SelectedIds : \E s \in SelectedIds : LossOf(u) = LossOf(s)
  /\ \E a, b \in SelectedIds : a # b /\ LossOf(a) = LossOf(b)

\* C8: the colour of a marker depends on the loss alone, with strict
\* thresholds: red above 100000, orange above 50000 up to 100000, yellow up
\* to 50000.
C8_SeverityByStrictThresholds ==
  \A k \in 1..Len(markers) :
     LET loss == LossOf(markers[k].Claim_ID)
     IN  /\ markers[k].color \in {"red", "orange", "yellow"}
         /\ markers[k].color = "red" <=> loss > 100000
         /\ markers[k].color = "orange" <=> (loss > 50000 /\ loss <= 100000)
         /\ markers[k].color = "yellow" <=> loss <= 50000

\* a map with a marker of loss exactly 100000 (orange) and one of loss
\* exactly 50000 (yellow)
C8_Witness ==
  /\ \E k \in 1..Len(markers) :
        LossOf(markers[k].Claim_ID) = 100000 /\ markers[k].color = "orange"
  /\ \E k \in 1..Len(markers) :
        LossOf(markers[k].Claim_ID) = 50000 /\ markers[k].color = "yellow"

RECURSIVE SumCoord(_, _)
\* sum over the rows I of the store of coordinate c ("Latitude"/"Longitude")
SumCoord(I, c) ==
  IF I = {} THEN 0
  ELSE LET i == CHOOSE x \in I : TRUE
       IN  Get(store[i][c]) + SumCoord(I \ {i}, c)

\* the fraction q = <<a, b>> equals num / den
FracEq(q, num, den) == q[2] # 0 /\ den # 0 /\ q[1] * den = num * q[2]

\* C9: the map centre is the mean latitude and the mean longitude of all
\* valid-geo claims, selected for a marker or not.
C9_CenterIsMeanOfAllValidGeo ==
  Selected =>
    /\ map_center # None
    /\ FracEq(Get(map_center)[1], SumCoord(ValidGeo, "Latitude"), Cardinality(ValidGeo))
    /\ FracEq(Get(map_center)[2], SumCoord(ValidGeo, "Longitude"), Cardinality(ValidGeo))

\* more valid-geo rows than are plotted, and the mean latitude of the
\* plotted rows differs from the centre
C9_Witness ==
  /\ pc = "markers"
  /\ Cardinality(ValidGeo) > Len(high_loss_claims)
  /\ ~FracEq(Get(map_center)[1], SumCoord(SelectedIds, "Latitude"),
             Cardinality(SelectedIds))

----------------------------------------------------------------------------
(* The analysis run again and again over a database that changes *)

\* most runs of the analysis
MaxRuns == 2

\* most rows in the claims table of a run
MaxRunClaims == 1

\* a tagged row and an untagged row with coordinates, a tagged row without
\* latitude, and a row with coordinates and no narrative
RunRows ==
  {Row(TxtPolicy, 5, 0, Some(41), Some(-87)),
   Row(TxtIcy, 7, 0, None, Some(-87)),
   Row(TxtNone, 2, 1, Some(43), Some(-87)),
   Row(None, 2, 1, Some(41), Some(-87))}

InitRuns ==
  /\ \/ dbOpenable = FALSE /\ dbOK = FALSE /\ store = <<>>
     \/ dbOpenable = TRUE /\ dbOK = FALSE /\ store = <<>>
     \/ /\ dbOpenable = TRUE
        /\ dbOK = TRUE
        /\ \E n \in 0..MaxRunClaims : \E f \in [1..n -> RunRows] :
              store = Table(f, n)
  /\ conn = "none" /\ pc = "start"
  /\ df = <<>> /\ oversight_loss = <<>> /\ oversight_analysis = <<>>
  /\ map_center = None /\ high_loss_claims = <<>> /\ visited = 0
  /\ markers = <<>> /\ exc = None
  /\ chartFile = None /\ mapFile = None /\ summary = None
  /\ TextIdle
  /\ LoadIdle
  /\ FirstRun
  /\ ReadersIdle
  /\ GenIdle

\* text_analysis.py is run again after a run has ended, over whatever the
\* database holds by then (lines 451-466); the files in output/ stay, the
\* locals of the function start afresh
NewRun ==
  /\ pc \in {"done", "returned", "raised"}
  /\ run < MaxRuns
  /\ run' = run + 1
  /\ \/ dbOpenable' = FALSE /\ dbOK' = FALSE /\ store' = <<>>
     \/ dbOpenable' = TRUE /\ dbOK' = FALSE /\ store' = <<>>
     \/ /\ dbOpenable' = TRUE
        /\ dbOK' = TRUE
        /\ \E n \in 0..MaxRunClaims : \E f \in [1..n -> RunRows] :
              store' = Table(f, n)
  /\ conn' = "none" /\ pc' = "start"
  /\ df' = <<>> /\ oversight_loss' = <<>> /\ oversight_analysis' = <<>>
  /\ map_center' = None /\ high_loss_claims' = <<>> /\ visited' = 0
  /\ markers' = <<>> /\ exc' = None /\ summary' = None
  /\ prev' = Some([dbOpenable |-> dbOpenable, dbOK |-> dbOK, store |-> store,
                    pc |-> pc, exc |-> exc, df |-> df,
                    oversight_analysis |-> oversight_analysis,
                    high_loss_claims |-> high_loss_claims,
                    markers |-> markers, summary |-> summary,
                    chartFile |-> chartFile, mapFile |-> mapFile])
  /\ UNCHANGED <<chartFile, mapFile, chartRun, mapRun, sortMemo, topMemo>>
  /\ UNCHANGED <<textVars, loadVars, readerVars, genVars>>

NextRuns == Next \/ NewRun

SpecRuns == InitRuns /\ [][NextRuns]_vars

----------------------------------------------------------------------------
(* calculate_kpis of kpi_calculation.py and perform_analysis of analysis.py,
   run after the root-cause analysis over the same database *)

\* the mutant of to_period_Q that takes the month for the quarter
to_period_by_month(t) == <<t[1], t[2]>>

\* .dt.to_period('Q') on one timestamp: year and quarter
to_period_Q(t) == <<t[1], ((t[2] - 1) \div 3) + 1>>

\* the order of periods
period_less(a, b) == a[1] < b[1] \/ (a[1] = b[1] /\ a[2] < b[2])

RECURSIVE sorted_periods(_)
\* the group keys of df.groupby('Quarter'), which sorts them
sorted_periods(S) ==
  IF S = {} THEN <<>>
  ELSE LET first == CHOOSE a \in S : \A b \in S \ {a} : period_less(a, b)
       IN  <<first>> \o sorted_periods(S \ {first})

\* SELECT * FROM claims on one row, with the columns that the two functions
\* read
select_all(r) ==
  [Claim_ID          |-> r.Claim_ID,
   Date_of_Incident  |-> r.Date_of_Incident,
   Claim_Status      |-> r.Claim_Status,
   Settlement_Amount |-> r.Settlement_Amount,
   Legal_Costs       |-> r.Legal_Costs]

\* df.dropna(subset=['Date_of_Incident']) after the conversion of the dates
dropna_date(d) ==
  SelectSeq([i \in 1..Len(d) |->
               [d[i] EXCEPT !.Date_of_Incident = to_datetime(d[i].Date_of_Incident)]],
            LAMBDA r : ~isna(r.Date_of_Incident))

\* the mutant of derive_row that takes the settlement for the loss
derive_row_settlement_only(r) ==
  [Claim_ID          |-> r.Claim_ID,
   Date_of_Incident  |-> r.Date_of_Incident,
   Claim_Status      |-> r.Claim_Status,
   Settlement_Amount |-> r.Settlement_Amount,
   Legal_Costs       |-> r.Legal_Costs,
   Total_Loss        |-> r.Settlement_Amount,
   Quarter           |-> to_period_Q(Get(r.Date_of_Incident))]

\* the columns Total_Loss and Quarter added to one row (kpi_calculation.py
\* lines 85 and 89; analysis.py lines 41-42)
derive_row(r) ==
  [Claim_ID          |-> r.Claim_ID,
   Date_of_Incident  |-> r.Date_of_Incident,
   Claim_Status      |-> r.Claim_Status,
   Settlement_Amount |-> r.Settlement_Amount,
   Legal_Costs       |-> r.Legal_Costs,
   Total_Loss        |-> r.Settlement_Amount + r.Legal_Costs,
   Quarter           |-> to_period_Q(Get(r.Date_of_Incident))]

\* high_value_threshold
HighValueThreshold == 50000

\* resolved_statuses
resolved_statuses ==
  {"Closed - Settled", "Closed - Denied", "Closed - Withdrawn"}

\* the dictionary quarterly_kpis of one group (lines 104-160); quotients are
\* kept as pairs, and Avg_Days_to_Close_Claim is left out: dates are kept by
\* month here
quarterly_kpis(quarter, group) ==
  LET total_claims      == Len(group)
      total_loss        == SumSeq(losses(group))
      total_settlements == SumSeq([i \in 1..Len(group) |-> group[i].Settlement_Amount])
      total_legal_costs == SumSeq([i \in 1..Len(group) |-> group[i].Legal_Costs])
      resolved_claims   ==
        SelectSeq(group, LAMBDA r : /\ ~isna(r.Claim_Status)
                                    /\ Get(r.Claim_Status) \in resolved_statuses)
      high_value_claims ==
        SelectSeq(group, LAMBDA r : r.Total_Loss > HighValueThreshold)
  IN  [Quarter               |-> quarter,
       Total_Claims          |-> total_claims,
       Total_Loss            |-> total_loss,
       Avg_Cost_per_Claim    |-> <<total_loss, total_claims>>,
       Claim_Resolution_Rate |-> <<Len(resolved_claims), total_claims>>,
       Settlement_Ratio      |-> IF total_loss > 0
                                 THEN <<total_settlements, total_loss>>
                                 ELSE <<0, 1>>,
       High_Value_Claim_Rate |-> <<Len(high_value_claims), total_claims>>,
       Total_Settlements     |-> total_settlements,
       Total_Legal_Costs     |-> total_legal_costs]

\* the loop over df.groupby('Quarter') (lines 100-160)
kpis_data(d) ==
  LET quarters == sorted_periods({r.Quarter : r \in Range(d)})
  IN  [i \in 1..Len(quarters) |->
         quarterly_kpis(quarters[i],
                        SelectSeq(d, LAMBDA r : r.Quarter = quarters[i]))]

\* a run of the root-cause analysis has ended
AnalysisEnded == pc \in {"done", "returned", "raised"}

\* a run of calculate_kpis has ended
KpiEnded == kpc \in {"done", "returned", "raised"}

\* sqlite3.connect(db_path) at line 54
KpiConnect ==
  /\ kpc = "start"
  /\ AnalysisEnded
  /\ dbOpenable
  /\ kconn' = "open"
  /\ kpc' = "connected"
  /\ UNCHANGED <<kdf, kpis, kpiFile, kexc, epc, econn, edf, eexc>>
  /\ UNCHANGED <<pipeVars, textVars, loadVars, runVars, genVars>>

\* sqlite3.connect(db_path) at line 54, before the try, cannot open the file
KpiConnectRaise ==
  /\ kpc = "start"
  /\ AnalysisEnded
  /\ ~dbOpenable
  /\ kexc' = Some("OperationalError")
  /\ kpc' = "raised"
  /\ UNCHANGED <<kconn, kdf, kpis, kpiFile, epc, econn, edf, eexc>>
  /\ UNCHANGED <<pipeVars, textVars, loadVars, runVars, genVars>>

\* pd.read_sql succeeds; the finally clause closes the connection (lines 56-66)
KpiReadOK ==
  /\ kpc = "connected"
  /\ dbOK
  /\ kdf' = [i \in 1..Len(store) |-> select_all(store[i])]
  /\ kconn' = "closed"
  /\ kpc' = "loaded"
  /\ UNCHANGED <<kpis, kpiFile, kexc, epc, econn, edf, eexc>>
  /\ UNCHANGED <<pipeVars, textVars, loadVars, runVars, genVars>>

\* pd.read_sql raises: diagnostic, close, return None (lines 62-64)
KpiReadFail ==
  /\ kpc = "connected"
  /\ ~dbOK
  /\ kconn' = "closed"
  /\ kpc' = "returned"
  /\ UNCHANGED <<kdf, kpis, kpiFile, kexc, epc, econn, edf, eexc>>
  /\ UNCHANGED <<pipeVars, textVars, loadVars, runVars, genVars>>

\* the dates converted, the rows without incident date dropped, Total_Loss
\* and Quarter added (lines 71-91)
KpiPreprocess ==
  /\ kpc = "loaded"
  /\ kdf' = LET kept == dropna_date(kdf)
            IN  [i \in 1..Len(kept) |-> derive_row(kept[i])]
  /\ kpc' = "prepared"
  /\ UNCHANGED <<kconn, kpis, kpiFile, kexc, epc, econn, edf, eexc>>
  /\ UNCHANGED <<pipeVars, textVars, loadVars, runVars, genVars>>

\* the loop over the quarters, df_kpis, to_csv and the return (lines 97-215)
KpiQuarters ==
  /\ kpc = "prepared"
  /\ kpis' = Some(kpis_data(kdf))
  /\ kpiFile' = Some(kpis_data(kdf))
  /\ kpc' = "done"
  /\ UNCHANGED <<kconn, kdf, kexc, epc, econn, edf, eexc>>
  /\ UNCHANGED <<pipeVars, textVars, loadVars, runVars, genVars>>

\* a remaining row has a NULL Claim_Status: with object columns
\* .str.startswith('Closed') gives NaN for it and the mask of line 119
\* raises ValueError; a pandas that reads the column as strings gives False
\* and goes on, which is KpiQuarters
KpiRaise ==
  /\ kpc = "prepared"
  /\ \E i \in 1..Len(kdf) : isna(kdf[i].Claim_Status)
  /\ kexc' = Some("ValueError")
  /\ kpc' = "raised"
  /\ UNCHANGED <<kconn, kdf, kpis, kpiFile, epc, econn, edf, eexc>>
  /\ UNCHANGED <<pipeVars, textVars, loadVars, runVars, genVars>>

\* sqlite3.connect(db_path) at analysis.py line 13
ExploreConnect ==
  /\ epc = "start"
  /\ KpiEnded
  /\ dbOpenable
  /\ econn' = "open"
  /\ epc' = "connected"
  /\ UNCHANGED <<kpc, kconn, kdf, kpis, kpiFile, kexc, edf, eexc>>
  /\ UNCHANGED <<pipeVars, textVars, loadVars, runVars, genVars>>

\* sqlite3.connect(db_path) at analysis.py line 13 cannot open the file
ExploreConnectRaise ==
  /\ epc = "start"
  /\ KpiEnded
  /\ ~dbOpenable
  /\ eexc' = Some("OperationalError")
  /\ epc' = "raised"
  /\ UNCHANGED <<kpc, kconn, kdf, kpis, kpiFile, kexc, econn, edf>>
  /\ UNCHANGED <<pipeVars, textVars, loadVars, runVars, genVars>>

\* the table list and pd.read_sql succeed; the finally clause closes the
\* connection (analysis.py lines 17-30)
ExploreReadOK ==
  /\ epc = "connected"
  /\ dbOK
  /\ edf' = [i \in 1..Len(store) |-> select_all(store[i])]
  /\ econn' = "closed"
  /\ epc' = "loaded"
  /\ UNCHANGED <<kpc, kconn, kdf, kpis, kpiFile, kexc, eexc>>
  /\ UNCHANGED <<pipeVars, textVars, loadVars, runVars, genVars>>

\* pd.read_sql raises: diagnostic, close, return (analysis.py lines 25-28)
ExploreReadFail ==
  /\ epc = "connected"
  /\ ~dbOK
  /\ econn' = "closed"
  /\ epc' = "returned"
  /\ UNCHANGED <<kpc, kconn, kdf, kpis, kpiFile, kexc, edf, eexc>>
  /\ UNCHANGED <<pipeVars, textVars, loadVars, runVars, genVars>>

\* the dates converted, the rows without incident date dropped, the derived
\* columns added, and the charts drawn from them (analysis.py lines 33-109)
ExplorePlots ==
  /\ epc = "loaded"
  /\ edf' = LET kept == dropna_date(edf)
            IN  [i \in 1..Len(kept) |-> derive_row(kept[i])]
  /\ epc' = "done"
  /\ UNCHANGED <<kpc, kconn, kdf, kpis, kpiFile, kexc, econn, eexc>>
  /\ UNCHANGED <<pipeVars, textVars, loadVars, runVars, genVars>>

NextReaders ==
  \/ Next
  \/ KpiConnect \/ KpiConnectRaise \/ KpiReadOK \/ KpiReadFail
  \/ KpiPreprocess \/ KpiQuarters \/ KpiRaise
  \/ ExploreConnect \/ ExploreConnectRaise \/ ExploreReadOK \/ ExploreReadFail
  \/ ExplorePlots

KpiRow(text, settlement, legal, lat, lon, date, status) ==
  [Allegation_Details |-> text, Settlement_Amount |-> settlement,
   Legal_Costs |-> legal, Latitude |-> lat, Longitude |-> lon,
   Date_of_Incident |-> date, Claim_Status |-> status]

\* rows in three quarters of two years, two of them in one quarter; rows
\* without a date that can be read; a row without narrative and a row
\* without status
KpiRows ==
  {KpiRow(TxtPolicy, 50000, 1, Some(41), Some(-87), DateOf(2015, 1), Some("Open")),
   KpiRow(TxtPolicy, 50000, 0, Some(41), Some(-87), DateOf(2015, 3),
          Some("Closed - Settled")),
   KpiRow(TxtNone, 2, 1, None, Some(-87), DateOf(2015, 4), Some("Closed - Denied")),
   KpiRow(TxtPolicy, 7, 1, Some(43), Some(-87), DateOf(2016, 1), Some("Open")),
   KpiRow(TxtNone, 2, 1, None, Some(-87), DateText, Some("Open")),
   KpiRow(TxtPolicy, 2, 1, Some(41), Some(-87), DateNull, Some("Open")),
   KpiRow(None, 2, 1, Some(41), Some(-87), DateOf(2015, 1), Some("Open")),
   KpiRow(TxtPolicy, 50000, 1, Some(41), Some(-87), DateOf(2015, 1), None)}

\* the table made of the n rows f; Claim_ID is the row number
KpiTable(f, n) ==
  [i \in 1..n |->
     [Claim_ID           |-> i,
      Allegation_Details |-> f[i].Allegation_Details,
      Settlement_Amount  |-> f[i].Settlement_Amount,
      Legal_Costs        |-> f[i].Legal_Costs,
      Latitude           |-> f[i].Latitude,
      Longitude          |-> f[i].Longitude,
      Date_of_Incident   |-> f[i].Date_of_Incident,
      Claim_Status       |-> f[i].Claim_Status]]

InitReaders ==
  /\ \/ dbOpenable = FALSE /\ dbOK = FALSE /\ store = <<>>
     \/ dbOpenable = TRUE /\ dbOK = FALSE /\ store = <<>>
     \/ /\ dbOpenable = TRUE
        /\ dbOK = TRUE
        /\ \E n \in 0..MaxClaims : \E f \in [1..n -> KpiRows] :
              store = KpiTable(f, n)
  /\ conn = "none" /\ pc = "start"
  /\ df = <<>> /\ oversight_loss = <<>> /\ oversight_analysis = <<>>
  /\ map_center = None /\ high_loss_claims = <<>> /\ visited = 0
  /\ markers = <<>> /\ exc = None
  /\ chartFile = None /\ mapFile = None /\ summary = None
  /\ TextIdle
  /\ LoadIdle
  /\ FirstRun
  /\ kpc = "start" /\ kconn = "none" /\ kdf = <<>> /\ kpis = None
  /\ kpiFile = None /\ kexc = None
  /\ epc = "start" /\ econn = "none" /\ edf = <<>> /\ eexc = None
  /\ GenIdle

SpecReaders == InitReaders /\ [][NextReaders]_vars

----------------------------------------------------------------------------
(* The three scripts one after the other: load_data_to_db.py,
   text_analysis.py, kpi_calculation.py *)

\* the __main__ block of kpi_calculation.py, started after the analysis
RunKpis ==
  /\ kpc = "idle"
  /\ AnalysisEnded
  /\ kpc' = "start"
  /\ UNCHANGED <<kconn, kdf, kpis, kpiFile, kexc, epc, econn, edf, eexc>>
  /\ UNCHANGED <<pipeVars, textVars, loadVars, runVars, genVars>>

NextChain ==
  \/ NextLoad
  \/ RunKpis
  \/ KpiConnect \/ KpiConnectRaise \/ KpiReadOK \/ KpiReadFail
  \/ KpiPreprocess \/ KpiQuarters \/ KpiRaise

\* CSV rows in two quarters, with a date that cannot be read, with an amount
\* that is no number, and without status
ChainRows ==
  {CsvRowDated(TxtPolicy, CellNum(50000), CellNum(1), CellNum(41), CellNum(-87),
               DateOf(2015, 1), Some("Open")),
   CsvRowDated(TxtPolicy, CellNum(100000), CellNum(1), CellNum(43), CellNum(-87),
               DateOf(2015, 4), Some("Closed - Settled")),
   CsvRowDated(TxtNone, CellText, CellNum(1), CellNum(41), CellNum(-87),
               DateText, Some("Open")),
   CsvRowDated(TxtPolicy, CellNum(50000), CellEmpty, CellNum(41), CellNum(-87),
               DateOf(2015, 1), None)}

InitChain ==
  /\ \/ /\ dbOpenable = FALSE /\ dbOK = FALSE /\ store = <<>>
        /\ schemaOK = TRUE /\ writeOK = TRUE
     \/ /\ dbOpenable = TRUE
        /\ \/ dbOK = FALSE /\ store = <<>>
           \/ /\ dbOK = TRUE
              /\ \E f \in [1..1 -> KpiRows] : store = KpiTable(f, 1)
        /\ \E ok \in {<<TRUE, TRUE>>, <<FALSE, TRUE>>, <<TRUE, FALSE>>} :
              schemaOK = ok[1] /\ writeOK = ok[2]
  /\ \/ csv = None
     \/ \E n \in 0..MaxClaims : \E f \in [1..n -> ChainRows] : csv = Some(f)
  /\ lpc = "start" /\ lconn = "none" /\ loadReport = None
  /\ conn = "none" /\ pc = "idle"
  /\ df = <<>> /\ oversight_loss = <<>> /\ oversight_analysis = <<>>
  /\ map_center = None /\ high_loss_claims = <<>> /\ visited = 0
  /\ markers = <<>> /\ exc = None
  /\ chartFile = None /\ mapFile = None /\ summary = None
  /\ TextIdle
  /\ FirstRun
  /\ ReadersIdle
  /\ GenIdle

SpecChain == InitChain /\ [][NextChain]_vars

----------------------------------------------------------------------------
(* generate_claims_data of data_simulation.py: the amounts and the status of
   each record; amounts are whole dollars here *)

\* num_records
NumRecords == 2

\* claim_statuses (lines 114-119)
claim_statuses ==
  {"Open", "Closed - Settled", "Closed - Denied", "Closed - Withdrawn"}

\* values of round(random.uniform(500, 500000), 2): the ends of the range
SettlementDraws == {500, 500000}

\* values of round(random.uniform(100, 50000), 2): the ends of the range
LegalDraws == {100, 50000}

\* the mutant of consistent_statuses that leaves the status as drawn
consistent_statuses_as_drawn(settlement, status) == {status}

\* the statuses that the adjustment of lines 164-169 can leave
consistent_statuses(settlement, status) ==
  IF settlement = 0 /\ status = "Closed - Settled"
  THEN {"Closed - Denied", "Closed - Withdrawn"}
  ELSE IF settlement > 0 /\ status \in {"Closed - Denied", "Closed - Withdrawn"}
  THEN {"Closed - Settled"}
  ELSE {status}

\* lines 148-158 of one pass of the loop: a settlement with legal costs, or
\* neither
GenAmounts ==
  /\ gpc = "top"
  /\ Len(data) < NumRecords
  /\ \/ /\ settlement_amount' \in SettlementDraws
        /\ legal_costs' \in LegalDraws
     \/ /\ settlement_amount' = 0
        /\ legal_costs' = 0
  /\ gpc' = "amounts"
  /\ UNCHANGED <<claim_status, data>>
  /\ UNCHANGED <<pipeVars, textVars, loadVars, runVars, readerVars>>

\* random.choice(claim_statuses) at line 161
GenStatus ==
  /\ gpc = "amounts"
  /\ claim_status' \in claim_statuses
  /\ gpc' = "status"
  /\ UNCHANGED <<settlement_amount, legal_costs, data>>
  /\ UNCHANGED <<pipeVars, textVars, loadVars, runVars, readerVars>>

\* the adjustment of the status to the settlement (lines 164-169)
GenConsistent ==
  /\ gpc = "status"
  /\ claim_status' \in consistent_statuses(settlement_amount, claim_status)
  /\ gpc' = "consistent"
  /\ UNCHANGED <<settlement_amount, legal_costs, data>>
  /\ UNCHANGED <<pipeVars, textVars, loadVars, runVars, readerVars>>

\* data.append of lines 215-229, with the columns of the amounts and status
GenAppend ==
  /\ gpc = "consistent"
  /\ data' = Append(data, [Claim_ID          |-> Len(data) + 1,
                           Claim_Status      |-> claim_status,
                           Settlement_Amount |-> settlement_amount,
                           Legal_Costs       |-> legal_costs])
  /\ gpc' = "top"
  /\ UNCHANGED <<settlement_amount, legal_costs, claim_status>>
  /\ UNCHANGED <<pipeVars, textVars, loadVars, runVars, readerVars>>

\* the loop is over: the DataFrame of the records is returned (lines 232-233)
GenReturn ==
  /\ gpc = "top"
  /\ Len(data) = NumRecords
  /\ gpc' = "returned"
  /\ UNCHANGED <<settlement_amount, legal_costs, claim_status, data>>
  /\ UNCHANGED <<pipeVars, textVars, loadVars, runVars, readerVars>>

NextGen == GenAmounts \/ GenStatus \/ GenConsistent \/ GenAppend \/ GenReturn

InitGen ==
  /\ PipeIdle
  /\ TextIdle
  /\ LoadIdle
  /\ FirstRun
  /\ ReadersIdle
  /\ gpc = "top"
  /\ settlement_amount = None /\ legal_costs = None /\ claim_status = None
  /\ data = <<>>

SpecGen == InitGen /\ [][NextGen]_vars

----------------------------------------------------------------------------
(* Claims about empty inputs and faulty records *)

\* the figures of the summary are all zero and no per-tag loss is printed
ZeroSummary ==
  /\ summary # None
  /\ Get(summary).total_claims = 0
  /\ Get(summary).oversight_claims = 0
  /\ Get(summary).oversight_loss = None
  /\ Get(summary).geo_records = 0

\* C14: on a claims table without rows the run raises no exception, every
\* stage yields an empty result and the summary reports zeros.
C14_Original_EmptyTableReachesZeroSummary ==
  (dbOK /\ store = <<>>) =>
    /\ exc = None
    /\ pc \notin {"raised", "returned"}
    /\ oversight_loss = <<>> /\ markers = <<>>
    /\ pc = "done" => ZeroSummary

\* some record of the claims table has no narrative
HasNullNarrative ==
  \E i \in 1..Len(store) : IsNone(store[i].Allegation_Details)

\* C15: a record with a null Allegation_Details never aborts the batch: it is
\* cleaned as the empty text, and the run raises nothing on its way through
\* the marker loop to the summary.
C15_Original_NullNarrativeNeverAborts ==
  HasNullNarrative =>
    /\ exc = None
    /\ \A i \in 1..Len(df) :
          (pc \notin {"start", "connected", "loaded"}
             /\ IsNone(df[i].Allegation_Details))
            => df[i].Cleaned_Allegation_Details = <<>>

\* the claims (row numbers) with a null Latitude or a null Longitude
NullGeo ==
  {i \in 1..Len(store) : isna(store[i].Latitude) \/ isna(store[i].Longitude)}

\* C17: a claim with a null Latitude or Longitude is left out of the
\* geospatial stage only: it is not selected and gets no marker, but it is
\* cleaned and tagged, is counted in the total and in the tagged claims of
\* the summary, and its Total_Loss is part of the total of each of its tags.
C17_NullGeoLeftOutOfGeoOnly ==
  pc = "done" =>
    /\ Get(summary).total_claims = Len(store)
    /\ Get(summary).oversight_claims =
         Cardinality(Tagged)
    /\ Get(summary).geo_records = Len(store) - Cardinality(NullGeo)
    /\ \A i \in NullGeo :
          /\ i \notin SelectedIds
          /\ \A k \in 1..Len(markers) : markers[k].Claim_ID # i
          /\ df[i].Cleaned_Allegation_Details
               = clean_text(store[i].Allegation_Details)
          /\ df[i].Identified_Oversights
               = identify_oversights(df[i].Cleaned_Allegation_Details)
          /\ \A t \in Range(df[i].Identified_Oversights) :
                \E r \in Range(oversight_analysis) :
                   /\ r.Oversight = t
                   /\ r.Total_Loss = LossOf(i) + SumLossOver(Carriers(t) \ {i})

\* a finished run over a tagged claim with a positive loss and no latitude
\* and a claim that got a marker
C17_Witness ==
  /\ pc = "done"
  /\ markers # <<>>
  /\ \E i \in NullGeo :
        /\ df[i].Identified_Oversights # <<>>
        /\ LossOf(i) > 0

----------------------------------------------------------------------------
(* Claims about the loader followed by the analysis *)

\* load_csv_to_db has written the rows of the CSV file to the claims table
Loaded ==
  /\ lpc = "done"
  /\ loadReport # None
  /\ Get(loadReport).record_count # None

\* the Latitude or the Longitude cell of the i-th CSV row is empty or is no
\* number
AbsentCoordinate(i) ==
  \/ Get(csv)[i].Latitude.kind # "num"
  \/ Get(csv)[i].Longitude.kind # "num"

\* C16: a claim whose Latitude or Longitude is absent from the CSV file is,
\* after load_csv_to_db and perform_root_cause_analysis, left out of the
\* geospatial analysis: it is no valid-geo record, is not selected and gets
\* no marker.
C16_Original_AbsentCoordinateLeftOutOfGeo ==
  Loaded =>
    \A i \in 1..Len(Get(csv)) :
      AbsentCoordinate(i) =>
        /\ \A k \in 1..Len(df) :
              df[k].Claim_ID = i => isna(df[k].Latitude) \/ isna(df[k].Longitude)
        /\ \A k \in 1..Len(high_loss_claims) : high_loss_claims[k].Claim_ID # i
        /\ \A k \in 1..Len(markers) : markers[k].Claim_ID # i
        /\ pc = "done" => Get(summary).geo_records < Len(Get(csv))

\* the CSV rows whose Settlement_Amount or Legal_Costs cell is empty or is no
\* number
CoercedRows ==
  {i \in 1..Len(Get(csv)) :
     \/ Get(csv)[i].Settlement_Amount.kind # "num"
     \/ Get(csv)[i].Legal_Costs.kind # "num"}

\* the counts and amounts that the loader and the analysis summary print
ReportedFigures ==
  {Get(loadReport).records_read,
   Get(Get(loadReport).record_count),
   Get(Get(loadReport).total_exposure),
   Get(summary).total_claims,
   Get(summary).oversight_claims,
   Get(summary).geo_records}
  \cup (IF Get(summary).oversight_loss = None THEN {}
        ELSE {Get(Get(summary).oversight_loss)})

\* C18: a record whose Settlement_Amount or Legal_Costs is missing or is no
\* number is never dropped, the component is stored as 0, and the number of
\* such records is among the figures the run prints.
C18_Original_CoercedRowsKeptAndCounted ==
  (Loaded /\ pc = "done") =>
    /\ Len(store) = Len(Get(csv))
    /\ \A i \in 1..Len(store) :
          /\ Get(csv)[i].Settlement_Amount.kind # "num"
                => store[i].Settlement_Amount = 0
          /\ Get(csv)[i].Legal_Costs.kind # "num" => store[i].Legal_Costs = 0
    /\ CoercedRows # {} => Cardinality(CoercedRows) \in ReportedFigures

----------------------------------------------------------------------------
(* Claims about an unavailable store and about the files of repeated runs *)

\* C19: when the claim store is unavailable (the database cannot be opened,
\* or the claims table or a column is missing), the run closes the
\* connection it opened and returns without raising; no later stage runs
\* and neither the chart nor the map is written.
C19_Original_UnavailableStoreReturnsCleanly ==
  ~dbOK =>
    /\ exc = None
    /\ pc \in {"start", "connected", "returned"}
    /\ pc = "returned" => conn = "closed"
    /\ df = <<>> /\ summary = None
    /\ chartFile = None /\ mapFile = None

\* the run before was over the same database as the current run
SameStoreAsBefore ==
  /\ prev # None
  /\ Get(prev).dbOpenable = dbOpenable
  /\ Get(prev).dbOK = dbOK
  /\ Get(prev).store = store

ChartOfRun ==
  head([i \in 1..Len(oversight_analysis) |->
          [Oversight  |-> oversight_analysis[i].Oversight,
           Total_Loss |-> oversight_analysis[i].Total_Loss]],
       ChartRows)

\* the current run has got through the marker loop with rows to plot
MapRendered == pc = "done" /\ map_center # None

----------------------------------------------------------------------------
(* Claims about the three readers of the claims table *)

\* the loss of the stored claim with identifier id
StoredLoss(id) == store[id].Settlement_Amount + store[id].Legal_Costs

\* C22: in every run, the Total_Loss that the root-cause analysis, the KPI
\* calculation and the exploratory analysis hold for a claim is the sum of
\* the Settlement_Amount and Legal_Costs now stored for that claim
C22_TotalLossRecomputedFromStore ==
  /\ \A i \in 1..Len(df) : df[i].Total_Loss = StoredLoss(df[i].Claim_ID)
  /\ \A i \in 1..Len(oversight_loss) :
        oversight_loss[i].Total_Loss = StoredLoss(oversight_loss[i].Claim_ID)
  /\ kpc \in {"prepared", "done", "raised"} =>
        \A i \in 1..Len(kdf) : kdf[i].Total_Loss = StoredLoss(kdf[i].Claim_ID)
  /\ epc = "done" =>
        \A i \in 1..Len(edf) : edf[i].Total_Loss = StoredLoss(edf[i].Claim_ID)

\* the three functions have read a claim with settlement and legal costs
C22_Witness ==
  /\ pc = "done" /\ kpc = "done" /\ epc = "done"
  /\ \E i \in 1..Len(df) : \E j \in 1..Len(kdf) : \E k \in 1..Len(edf) :
        /\ df[i].Claim_ID = kdf[j].Claim_ID
        /\ df[i].Claim_ID = edf[k].Claim_ID
        /\ store[df[i].Claim_ID].Settlement_Amount > 0
        /\ store[df[i].Claim_ID].Legal_Costs > 0
        /\ edf[k].Total_Loss = df[i].Total_Loss
        /\ kdf[j].Total_Loss = df[i].Total_Loss

----------------------------------------------------------------------------
(* Claims about runs without tags, without coordinates, and about what a run
   leaves in the database *)

\* the table is read and not empty, the tagging is done and no claim carries
\* a tag
NothingTagged ==
  /\ pc \notin {"start", "connected", "loaded"}
  /\ Len(df) > 0
  /\ Tagged = {}

\* C23: on a non-empty claim set of which no claim is tagged the aggregation
\* is empty and the chart is skipped, and the run goes on through the
\* geospatial stage to the summary and returns normally: it raises nothing.
C23_Original_UntaggedSetReturnsNormally ==
  NothingTagged =>
    /\ oversight_loss = <<>>
    /\ oversight_analysis = <<>>
    /\ chartFile = None
    /\ exc = None

\* the table is not empty and every claim in it lacks a coordinate
NoClaimLocated ==
  /\ dbOpenable /\ dbOK
  /\ Len(store) > 0
  /\ NullGeo = 1..Len(store)

\* C24: on a non-empty claim set of which every claim lacks a coordinate
\* nothing is selected, no marker is made and no map is written; nothing is
\* raised and a run that ends has printed the summary, with 0 geospatial
\* records; every claim is tagged from its narrative and every (claim, tag)
\* pair is in the aggregation as if the coordinates were there.
C24_NoCoordinatesNoMapButSummary ==
  NoClaimLocated =>
    /\ exc = None
    /\ high_loss_claims = <<>> /\ markers = <<>> /\ map_center = None
    /\ mapFile = None
    /\ pc \in {"done", "returned", "raised"} =>
          /\ pc = "done"
          /\ summary # None
          /\ Get(summary).geo_records = 0
          /\ Get(summary).total_claims = Len(store)
    /\ pc = "tagged" =>
          /\ Len(df) = Len(store)
          /\ \A i \in 1..Len(df) :
                df[i].Identified_Oversights =
                  identify_oversights(clean_text(store[i].Allegation_Details))
    /\ pc = "aggregated" =>
          /\ Len(oversight_loss) = SumSeq([i \in 1..Len(df) |->
                                            Len(df[i].Identified_Oversights)])
          /\ \A i \in 1..Len(df) :
                \A t \in Range(df[i].Identified_Oversights) :
                  \E k \in 1..Len(oversight_loss) :
                    /\ oversight_loss[k].Claim_ID = df[i].Claim_ID
                    /\ oversight_loss[k].Oversight = t
                    /\ oversight_loss[k].Total_Loss = df[i].Total_Loss

\* a run over tagged claims without coordinates has printed its summary
C24_Witness ==
  /\ NoClaimLocated
  /\ pc = "done"
  /\ Len(store) >= 2
  /\ oversight_analysis # <<>>
  /\ chartFile # None
  /\ \E i \in 1..Len(store) : isna(store[i].Latitude) /\ ~isna(store[i].Longitude)

\* C25: a run of the root-cause analysis is read-only: no step changes the
\* rows of the claims table or the table's presence; the table is read in
\* one step, by the one connection that the run opens, which is closed by
\* that step and never opened again; the rows with their tags and the
\* (claim, tag) records are made after the connection is closed.
C25_RunLeavesStoreUnchanged ==
  [][/\ store' = store
     /\ dbOK' = dbOK
     /\ df' # df => (conn' = "closed" /\ (pc = "connected" \/ pc = "loaded"))
     /\ oversight_loss' # oversight_loss => conn = "closed"
     /\ conn' = "open" => (conn = "none" /\ pc = "start")
     /\ conn = "closed" => conn' = "closed"]_vars

\* a run over a table with tagged claims has ended with the table as it was
C25_Witness ==
  /\ pc = "done"
  /\ conn = "closed"
  /\ Len(store) >= 2
  /\ Len(df) = Len(store)
  /\ oversight_loss # <<>>
  /\ Tagged # {}

\* C26: whenever load_csv_to_db, calculate_kpis or
\* perform_root_cause_analysis has returned after opening its connection,
\* on the failure paths as on success, that connection is closed; and none
\* of them is left with an open connection by a raise either.
C26_ConnectionClosedOnReturn ==
  /\ lpc \in {"done", "returned"} => lconn = "closed"
  /\ pc \in {"done", "returned"} => conn = "closed"
  /\ kpc \in {"done", "returned"} => kconn = "closed"
  /\ lpc = "raised" => lconn # "open"
  /\ pc = "raised" => conn # "open"
  /\ kpc = "raised" => kconn # "open"

\* the loader has returned on a failure of the schema or of the CSV file,
\* and the two readers on a failure of their read
C26_Witness ==
  /\ lpc = "returned" /\ lconn = "closed"
  /\ pc = "returned" /\ conn = "closed"
  /\ kpc = "returned" /\ kconn = "closed"

----------------------------------------------------------------------------
(* Claims about the loader *)

\* the rows that a successful load writes for the CSV file
CsvAsLoaded == [i \in 1..Len(Get(csv)) |-> load_row(Get(csv)[i], i)]

\* C27: after a successful load the claims table holds the rows of the CSV
\* file, one per CSV row and no other, and the verified record count is the
\* number of CSV rows, whatever the table held before; a second successful
\* load of the same file leaves the table that the first left; and a step
\* that is not a successful load puts no row into the table.
C27_LoadReplacesTable ==
  /\ [](Loaded =>
          /\ store = CsvAsLoaded
          /\ Len(store) = Len(Get(csv))
          /\ Get(loadReport).record_count = Some(Len(Get(csv)))
          /\ (prev # None /\ Get(prev).lpc = "done"
                /\ Get(Get(prev).loadReport).record_count # None)
               => store = Get(prev).store)
  /\ [][store' # store => (store' = <<>> \/ Loaded')]_vars

\* the file is loaded a second time into the table that holds its rows
C27_Witness ==
  /\ Loaded
  /\ prev # None
  /\ Get(prev).lpc = "done"
  /\ Get(Get(prev).loadReport).record_count # None
  /\ Len(Get(prev).store) >= 2
  /\ Len(store) >= 2

----------------------------------------------------------------------------
(* Claims about the generated data *)

\* C28: every record that generate_claims_data has made is consistent in
\* status and amounts: with a Settlement_Amount of 0 the status is not
\* 'Closed - Settled'; with a positive one it is 'Open' or
\* 'Closed - Settled'; a denied or withdrawn claim has neither settlement
\* nor legal costs; and the settlement is 0 exactly when the legal costs are.
C28_GeneratedRecordsStatusConsistent ==
  \A i \in 1..Len(data) :
    /\ data[i].Settlement_Amount = 0 => data[i].Claim_Status # "Closed - Settled"
    /\ data[i].Settlement_Amount > 0 =>
          data[i].Claim_Status \in {"Open", "Closed - Settled"}
    /\ data[i].Claim_Status \in {"Closed - Denied", "Closed - Withdrawn"} =>
          (data[i].Settlement_Amount = 0 /\ data[i].Legal_Costs = 0)
    /\ data[i].Settlement_Amount = 0 <=> data[i].Legal_Costs = 0

\* the generator has returned a denied claim without amounts and a settled
\* claim with amounts
C28_Witness ==
  /\ gpc = "returned"
  /\ \E i, j \in 1..Len(data) :
        /\ data[i].Claim_Status = "Closed - Denied"
        /\ data[i].Settlement_Amount = 0
        /\ data[j].Claim_Status = "Closed - Settled"
        /\ data[j].Settlement_Amount > 0 /\ data[j].Legal_Costs > 0

----------------------------------------------------------------------------
(* Claims about the quarterly KPIs *)

\* the claims (row numbers) whose stored Date_of_Incident is a date
ValidDated == {i \in 1..Len(store) : store[i].Date_of_Incident.kind = "date"}

\* the calendar quarter of the incident of claim i: quarter q holds the
\* months 3q-2 to 3q
QuarterOf(i) ==
  LET d == store[i].Date_of_Incident
  IN  <<d.y, CHOOSE q \in 1..4 : 3 * q - 2 <= d.m /\ d.m <= 3 * q>>

\* C29: the table that calculate_kpis returns and writes leaves out the
\* claims whose Date_of_Incident cannot be read and counts every other claim
\* in the row of its calendar quarter and in no other: there is one row for
\* each quarter that has a claim and none else, the rows are in
\* chronological order, and the Total_Claims of the rows add up to the
\* number of claims with a readable date.
C29_OneRowPerQuarterInOrder ==
  kpis # None =>
    LET rows == Get(kpis)
    IN  /\ kpc = "done"
        /\ kpiFile = kpis
        /\ {rows[k].Quarter : k \in 1..Len(rows)} = {QuarterOf(i) : i \in ValidDated}
        /\ \A k \in 1..Len(rows) :
              /\ rows[k].Total_Claims =
                    Cardinality({i \in ValidDated : QuarterOf(i) = rows[k].Quarter})
              /\ rows[k].Total_Claims >= 1
        /\ \A k \in 1..(Len(rows) - 1) :
              period_less(rows[k].Quarter, rows[k + 1].Quarter)
        /\ SumSeq([k \in 1..Len(rows) |-> rows[k].Total_Claims])
             = Cardinality(ValidDated)

\* a table of two quarters from claims stored with the later quarter first
\* and with a claim whose date cannot be read
C29_Witness ==
  /\ kpis # None
  /\ Len(Get(kpis)) = 2
  /\ \E i \in 1..Len(store) : i \notin ValidDated
  /\ \E i, j \in ValidDated : i < j /\ period_less(QuarterOf(j), QuarterOf(i))

----------------------------------------------------------------------------
(* Claims about the figures of the summary *)

\* C30: for a non-empty claim set with non-negative losses, the total loss
\* from oversight issues that the summary reports never exceeds the total
\* exposure, so the 'Percentage of Total Exposure' never exceeds 100%.
C30_Original_OversightLossWithinExposure ==
  (summary # None /\ Get(summary).oversight_loss # None) =>
    Get(Get(summary).oversight_loss) <= Get(summary).total_exposure

====
